---------------------------- MODULE Spec2Model ----------------------------
(***************************************************************************)
(* Page-granular multi-zone allocator (AllocatorCustom): the router        *)
(* AllocatorCustomCpp over per-zone PageAllocator instances, each with two *)
(* page bitmaps, a FIFO quarantine table and header/footer block guards.   *)
(*                                                                         *)
(* Number representation.  TLC integers are 32-bit signed, so              *)
(*   - a uint32_t is a pair <<hi, lo>> of 16-bit halves (value hi*2^16+lo),*)
(*   - a size_t (64-bit, HOST_BUILD) is a tuple of 8 bytes, least          *)
(*     significant first,                                                  *)
(*   - a uint16_t, page indices and page counts are plain naturals.        *)
(***************************************************************************)
EXTENDS Integers, Sequences, FiniteSets, TLC

(* ------------------------- configuration (AllocConf.h) ----------------- *)

ALLOC_PAGE_SIZE == 1024
ALLOC_HEADER_SIZE == 32
ALLOC_FOOTER_SIZE == 32
ALLOC_MAX_ZONES == 2
ALLOC_MAX_PAGES_PER_ZONE == 10240
ALLOC_PATTERN_HEADER_MAGIC == <<18501, 16708>>   \* 0x48454144
ALLOC_PATTERN_FOOTER_MAGIC == <<17999, 20308>>   \* 0x464F4F54
ALLOC_PATTERN_PADDING == 254
ALLOC_PATTERN_QUARANTINE_FILL == 205
ALLOC_PATTERN_CLEARED_PAGE == 0
ALLOC_MPU_FIRST_REGION == 4
ALLOC_MPU_REGION_COUNT == 2

\* Quarantine capacity: -D overridable in AllocConf.h (default 32); the model
\* is checked with a small table so that evictions happen within the bounds.
ALLOC_QUARANTINE_CAPACITY == 2

\* Bound on the number of successful allocations of one zone since init.
MaxAllocs == 4

NULL == 0

\* the element of a one-element set: The({e(x) : x \in {v}}) is e with x
\* standing for the value of v
The(S) == CHOOSE x \in S : TRUE

(* ------------------------- fixed-width arithmetic ---------------------- *)

Pow16 == 256 * 256

\* uint32_t from a natural below 2^31
U32(n) == <<n \div Pow16, n % Pow16>>

UINT32_MAX == <<65535, 65535>>

U32Lt(a, b) == a[1] < b[1] \/ (a[1] = b[1] /\ a[2] < b[2])

\* x++ on a uint32_t: wraps modulo 2^32
U32Inc(a) ==
    IF a[2] < Pow16 - 1 THEN <<a[1], a[2] + 1>>
    ELSE <<(a[1] + 1) % Pow16, 0>>

U32FitsInt(a) == a[1] < 32768
U32ToNat(a) == a[1] * Pow16 + a[2]

\* Bitwise XOR of two 4-bit values, and of two 16-bit values by nibbles.
Xor1(a, b) == (a + b) % 2
Xor4 ==
    [a \in 0..15, b \in 0..15 |->
        Xor1(a % 2, b % 2)
        + 2 * Xor1((a \div 2) % 2, (b \div 2) % 2)
        + 4 * Xor1((a \div 4) % 2, (b \div 4) % 2)
        + 8 * Xor1((a \div 8) % 2, (b \div 8) % 2)]
Xor16(a, b) ==
    Xor4[a % 16, b % 16]
    + 16 * Xor4[(a \div 16) % 16, (b \div 16) % 16]
    + 256 * Xor4[(a \div 256) % 16, (b \div 256) % 16]
    + 4096 * Xor4[(a \div 4096) % 16, (b \div 4096) % 16]
U32Xor(a, b) == <<Xor16(a[1], b[1]), Xor16(a[2], b[2])>>

\* size_t: 8 bytes, least significant first
SzBytes == 1..8
\* the eight bytes of f as a tuple
SzTuple(f) == <<f[1], f[2], f[3], f[4], f[5], f[6], f[7], f[8]>>
SIZE_MAX == SzTuple([i \in SzBytes |-> 255])

RECURSIVE NatByte(_, _)
NatByte(n, i) == IF i = 1 THEN n % 256 ELSE NatByte(n \div 256, i - 1)
\* size_t from a natural below 2^31
Sz(n) == SzTuple([i \in SzBytes |-> NatByte(n, i)])

SzIsZero(a) == \A i \in SzBytes : a[i] = 0

\* carry into byte i of a + b
RECURSIVE SzCarry(_, _, _)
SzCarry(a, b, i) ==
    IF i = 1 THEN 0 ELSE (a[i - 1] + b[i - 1] + SzCarry(a, b, i - 1)) \div 256
\* a + b modulo 2^64
SzAdd(a, b) == SzTuple([i \in SzBytes |-> (a[i] + b[i] + SzCarry(a, b, i)) % 256])

\* remainder carried into byte i (from the bytes above it) when dividing by d
RECURSIVE SzRem(_, _, _)
SzRem(a, d, i) ==
    IF i = 8 THEN 0 ELSE (SzRem(a, d, i + 1) * 256 + a[i + 1]) % d
\* a / d for a small divisor d (d * 256 fits an int)
SzDiv(a, d) == SzTuple([i \in SzBytes |-> (SzRem(a, d, i) * 256 + a[i]) \div d])

\* static_cast<uint16_t>(a), static_cast<uint32_t>(a)
SzToU16(a) == a[2] * 256 + a[1]
SzToU32(a) == <<a[4] * 256 + a[3], a[2] * 256 + a[1]>>

\* a as a natural, when it is below 2^31
SzFitsInt(a) == a[4] < 128 /\ \A i \in 5..8 : a[i] = 0
SzToNat(a) == ((a[4] * 256 + a[3]) * 256 + a[2]) * 256 + a[1]

\* a - b modulo 2^64
SzSub(a, b) == SzAdd(SzAdd(a, SzTuple([i \in SzBytes |-> 255 - b[i]])), Sz(1))

\* column k (1..15) of the schoolbook product of a and b: the sum of the
\* a[i] * b[k + 1 - i], taken from i upwards
RECURSIVE SzColFrom(_, _, _, _)
SzColFrom(a, b, k, i) ==
    IF i > 8 THEN 0
    ELSE (IF k + 1 - i \in SzBytes THEN a[i] * b[k + 1 - i] ELSE 0)
         + SzColFrom(a, b, k, i + 1)
SzColSum(a, b, k) == SzColFrom(a, b, k, 1)
\* column k with the carry of the columns below it
RECURSIVE SzMulCol(_, _, _)
SzMulCol(a, b, k) ==
    IF k = 0 THEN 0 ELSE SzColSum(a, b, k) + SzMulCol(a, b, k - 1) \div 256
\* a * b modulo 2^64
SzMul(a, b) == SzTuple([i \in SzBytes |-> SzMulCol(a, b, i) % 256])
\* the product a * b does not fit a size_t
SzMulOverflows(a, b) ==
    \/ SzMulCol(a, b, 8) \div 256 # 0
    \/ \E k \in 9..15 : SzColSum(a, b, k) # 0

(* ------------------------- PageBitmap ---------------------------------- *)

\* A bitmap is [bits |-> set of page indices whose bit is 1, pageCount |-> n].
BitmapInit(count) == [bits |-> {}, pageCount |-> count]

BitmapTest(bm, page) == page \in bm.bits

BitmapSetRange(bm, start, count) ==
    [bm EXCEPT !.bits = @ \cup {start + i : i \in 0..(count - 1)}]

BitmapClearRange(bm, start, count) ==
    [bm EXCEPT !.bits = @ \ {start + i : i \in 0..(count - 1)}]

\* words[wordIdx] == 0xFFFFFFFF
WordFull(bm, wordIdx) == \A b \in 0..31 : (wordIdx * 32 + b) \in bm.bits

\* the for-loop of findFreeRun, from index i with the run (runStart, runLen)
RECURSIVE FindFreeRunFrom(_, _, _, _, _)
FindFreeRunFrom(bm, count, i, runStart, runLen) ==
    IF i >= bm.pageCount THEN -1
    ELSE IF runLen = 0 /\ WordFull(bm, i \div 32)
         THEN FindFreeRunFrom(bm, count, (i \div 32 + 1) * 32, runStart, runLen)
    ELSE IF ~BitmapTest(bm, i)
         THEN LET rs == IF runLen = 0 THEN i ELSE runStart
              IN  IF runLen + 1 >= count THEN rs
                  ELSE FindFreeRunFrom(bm, count, i + 1, rs, runLen + 1)
    ELSE FindFreeRunFrom(bm, count, i + 1, runStart, 0)

\* a search that does not read the bitmap
FirstRunAnywhere(bm, count) ==
    IF count = 0 \/ count > bm.pageCount THEN -1 ELSE 0

FindFreeRun(bm, count) ==
    IF count = 0 \/ count > bm.pageCount THEN -1
    ELSE FindFreeRunFrom(bm, count, 0, 0, 0)

CountSet(bm) == Cardinality({p \in bm.bits : p < bm.pageCount})

(* ------------------------- BlockGuard ---------------------------------- *)

\* A header or footer record as it lies in memory.  Words 0..6 are
\* magic, requestedSize, startPage | pageCount << 16, zoneIndex | reserved,
\* sequenceNum, reserved2, reserved3; word 7 is the checksum.
ComputeChecksum(r) ==
    U32Xor(r.magic,
      U32Xor(r.requestedSize,
        U32Xor(<<r.pageCount, r.startPage>>,
          U32Xor(<<0, r.zoneIndex>>,
            U32Xor(r.sequenceNum, U32Xor(<<0, 0>>, <<0, 0>>))))))

GuardRecord(magic, requestedSize, startPage, pageCount, zoneIndex, sequenceNum) ==
    LET r == [magic |-> magic, requestedSize |-> requestedSize,
              startPage |-> startPage, pageCount |-> pageCount,
              zoneIndex |-> zoneIndex, sequenceNum |-> sequenceNum]
    IN  [magic |-> magic, requestedSize |-> requestedSize,
         startPage |-> startPage, pageCount |-> pageCount,
         zoneIndex |-> zoneIndex, sequenceNum |-> sequenceNum,
         checksum |-> ComputeChecksum(r)]

\* 32 bytes that hold no record written by the allocator (cleared, pattern
\* filled or never written): no magic.
BlankRecord ==
    [magic |-> <<0, 0>>, requestedSize |-> <<0, 0>>, startPage |-> 0,
     pageCount |-> 0, zoneIndex |-> 0, sequenceNum |-> <<0, 0>>,
     checksum |-> <<0, 0>>]

ValidateHeader(r) ==
    r.magic = ALLOC_PATTERN_HEADER_MAGIC /\ r.checksum = ComputeChecksum(r)

ValidateFooter(r) ==
    r.magic = ALLOC_PATTERN_FOOTER_MAGIC /\ r.checksum = ComputeChecksum(r)

ValidatePair(h, f) ==
    /\ h.requestedSize = f.requestedSize
    /\ h.startPage = f.startPage
    /\ h.pageCount = f.pageCount
    /\ h.zoneIndex = f.zoneIndex
    /\ h.sequenceNum = f.sequenceNum

(* ------------------------- zone memory --------------------------------- *)

\* The bytes of a zone are modelled by what the allocator last wrote over
\* them, a set of pairwise non-overlapping objects:
\*   [off |-> byte offset in the zone, rec |-> record]   a guard record,
\*   [off |-> lo, end |-> hi, fill |-> v]   bytes [lo, hi) set to v by memset.
\* Every other byte holds data the allocator did not write (what the memory
\* held at start-up, or what was left of a record partly overwritten).
RecordSize == ALLOC_HEADER_SIZE

IsRecord(o) == "rec" \in DOMAIN o

\* the 32 bytes at offset off, read as a header or footer structure
ReadRecord(m, off) ==
    IF \E o \in m : IsRecord(o) /\ o.off = off
    THEN (CHOOSE o \in m : IsRecord(o) /\ o.off = off).rec
    ELSE BlankRecord

\* what is left of the object o when the bytes [lo, hi) are overwritten: a
\* record that is touched is destroyed, a filled run keeps the bytes outside
Remains(o, lo, hi) ==
    IF IsRecord(o)
    THEN IF o.off + RecordSize <= lo \/ o.off >= hi THEN {o} ELSE {}
    ELSE IF o.end <= lo \/ o.off >= hi THEN {o}
    ELSE (IF o.off < lo THEN {[o EXCEPT !.end = lo]} ELSE {})
         \cup (IF hi < o.end THEN {[o EXCEPT !.off = hi]} ELSE {})

\* a fill that starts one byte before lo
WipeOneEarly(m, lo, hi) ==
    IF hi <= lo THEN m ELSE UNION {Remains(o, lo - 1, hi) : o \in m}

\* overwrite the bytes [lo, hi): what they held is gone
WipeRange(m, lo, hi) ==
    IF hi <= lo THEN m ELSE UNION {Remains(o, lo, hi) : o \in m}

\* the run [lo, hi) of bytes v joined with the runs of v that touch it in w
Joined(w, lo, hi, v) ==
    LET left  == {o \in w : ~IsRecord(o) /\ o.end = lo /\ o.fill = v}
        right == {o \in w : ~IsRecord(o) /\ o.off = hi /\ o.fill = v}
    IN  (w \ (left \cup right))
        \cup {[off  |-> IF left = {} THEN lo ELSE (CHOOSE o \in left : TRUE).off,
               end  |-> IF right = {} THEN hi ELSE (CHOOSE o \in right : TRUE).end,
               fill |-> v]}

\* memset(zone + lo, v, hi - lo)
FillRange(m, lo, hi, v) ==
    IF hi <= lo THEN m
    ELSE The({Joined(w, lo, hi, v) : w \in {WipeRange(m, lo, hi)}})

WriteRecord(m, off, r) ==
    WipeRange(m, off, off + RecordSize) \cup {[off |-> off, rec |-> r]}

\* footerFromHeader: offset of the footer of the header at hoff
FooterOffset(hoff, h) ==
    hoff + ALLOC_HEADER_SIZE + U32ToNat(h.requestedSize)

(* ------------------------- QuarantineTable ----------------------------- *)

Slots == 1..ALLOC_QUARANTINE_CAPACITY

ZeroEntry ==
    [startPage |-> 0, pageCount |-> 0, requestedSize |-> <<0, 0>>,
     freeSequence |-> <<0, 0>>, mpuRegion |-> 0, zoneIndex |-> 0, active |-> 0]

\* the table in zero-initialised (BSS) memory, before init()
QuarantineZero ==
    [entries |-> [i \in Slots |-> ZeroEntry], nextSequence |-> <<0, 0>>,
     activeCount |-> 0]

\* an init() that numbers the insertions from 0
QuarantineInitFromZero(cap) ==
    [entries |-> [i \in 1..cap |-> ZeroEntry], nextSequence |-> U32(0),
     activeCount |-> 0]

\* init() of a table built with capacity cap
QuarantineInitOf(cap) ==
    [entries |-> [i \in 1..cap |-> ZeroEntry], nextSequence |-> U32(1),
     activeCount |-> 0]

QuarantineInit == QuarantineInitOf(ALLOC_QUARANTINE_CAPACITY)

\* capacity(): the number of entries the table was built with
Capacity(q) == Len(q.entries)

IsFull(q) == q.activeCount >= Capacity(q)

\* the loop of findOldest from slot i; oldest = 0 stands for nullptr
RECURSIVE FindOldestFrom(_, _, _, _)
FindOldestFrom(q, i, oldest, minSeq) ==
    IF i > Capacity(q) THEN oldest
    ELSE IF q.entries[i].active # 0 /\ U32Lt(q.entries[i].freeSequence, minSeq)
         THEN FindOldestFrom(q, i + 1, i, q.entries[i].freeSequence)
    ELSE FindOldestFrom(q, i + 1, oldest, minSeq)

\* the first active slot, whatever its sequence number
FirstActive(q) ==
    IF \E i \in 1..Capacity(q) : q.entries[i].active # 0
    THEN CHOOSE i \in 1..Capacity(q) :
            /\ q.entries[i].active # 0
            /\ \A j \in 1..(i - 1) : q.entries[j].active = 0
    ELSE 0

FindOldest(q) == FindOldestFrom(q, 1, 0, UINT32_MAX)

\* the first slot whose active flag is 0; 0 stands for nullptr
FreeSlot(q) ==
    IF \E i \in 1..Capacity(q) : q.entries[i].active = 0
    THEN CHOOSE i \in 1..Capacity(q) :
            /\ q.entries[i].active = 0
            /\ \A j \in 1..Capacity(q) : j < i => q.entries[j].active # 0
    ELSE 0

\* add(): [q |-> table after, didEvict, evicted |-> copy of the evicted entry,
\*         ok |-> FALSE when an ALLOC_ASSERT of add fails]
QuarantineAdd(q, startPage, pageCount, requestedSize, zoneIndex) ==
    LET full   == IsFull(q)
        oldest == FindOldest(q)
        q1 == IF full /\ oldest # 0
              THEN [q EXCEPT !.entries[oldest].active = 0,
                             !.activeCount = @ - 1]
              ELSE q
        slot == FreeSlot(q1)
        new == [startPage |-> startPage, pageCount |-> pageCount,
                requestedSize |-> requestedSize,
                freeSequence |-> q1.nextSequence, mpuRegion |-> -1,
                zoneIndex |-> zoneIndex, active |-> 1]
    IN  IF (full /\ oldest = 0) \/ slot = 0
        THEN [q |-> q, didEvict |-> FALSE, evicted |-> ZeroEntry, ok |-> FALSE]
        ELSE [q |-> [q1 EXCEPT !.entries[slot] = new,
                               !.nextSequence = U32Inc(@),
                               !.activeCount = @ + 1],
              didEvict |-> full,
              evicted |-> IF full THEN q.entries[oldest] ELSE ZeroEntry,
              ok |-> TRUE]

ActiveSlots(q) == {i \in 1..Capacity(q) : q.entries[i].active # 0}

(* ------------------------- PageAllocator (one zone) -------------------- *)

\* A zone in zero-initialised memory: every field 0.
ZoneZero ==
    [baseAddress |-> NULL, totalPages |-> 0, zoneIndex |-> 0,
     initialized |-> FALSE,
     bitmapInUse |-> BitmapInit(0), bitmapAllocated |-> BitmapInit(0),
     quarantine |-> QuarantineZero,
     sequenceCounter |-> <<0, 0>>, freePagesCount |-> 0,
     minEverFreePages |-> 0, successfulAllocs |-> 0, successfulFrees |-> 0]

\* init(start, size, zone), size a size_t.  ok = FALSE: an ALLOC_ASSERT fails.
ZoneInitPages(size) == SzToU16(SzDiv(size, ALLOC_PAGE_SIZE))

ZoneInitOk(start, size) ==
    /\ start # NULL
    /\ ~SzIsZero(SzDiv(size, ALLOC_PAGE_SIZE))        \* size >= ALLOC_PAGE_SIZE
    /\ ZoneInitPages(size) > 0
    /\ ZoneInitPages(size) <= ALLOC_MAX_PAGES_PER_ZONE

\* the two asserts on the arguments, before init stores anything
ZoneInitArgsOk(start, size) ==
    start # NULL /\ ~SzIsZero(SzDiv(size, ALLOC_PAGE_SIZE))

\* the zone z when init stops at an assert: nothing stored when an argument
\* is refused, baseAddress, totalPages and zoneIndex stored when totalPages
\* is refused
ZoneInitStopped(z, start, size, zone) ==
    IF ZoneInitArgsOk(start, size)
    THEN [z EXCEPT !.baseAddress = start, !.totalPages = ZoneInitPages(size),
                   !.zoneIndex = zone]
    ELSE z

\* an init that relies on the zone being zeroed: it leaves the quarantine
\* and the low-water mark as they are in zeroed memory
ZoneInitOnZeroes(start, size, zone) ==
    LET n == ZoneInitPages(size)
    IN  [baseAddress |-> start, totalPages |-> n, zoneIndex |-> zone,
         initialized |-> TRUE,
         bitmapInUse |-> BitmapInit(n), bitmapAllocated |-> BitmapInit(n),
         quarantine |-> QuarantineZero,
         sequenceCounter |-> <<0, 0>>, freePagesCount |-> n,
         minEverFreePages |-> 0, successfulAllocs |-> 0, successfulFrees |-> 0]

ZoneInit(start, size, zone) ==
    LET n == ZoneInitPages(size)
    IN  [baseAddress |-> start, totalPages |-> n, zoneIndex |-> zone,
         initialized |-> TRUE,
         bitmapInUse |-> BitmapInit(n), bitmapAllocated |-> BitmapInit(n),
         quarantine |-> QuarantineInit,
         sequenceCounter |-> <<0, 0>>, freePagesCount |-> n,
         minEverFreePages |-> n, successfulAllocs |-> 0, successfulFrees |-> 0]

\* pagesNeeded: the sum wraps modulo 2^64, the quotient is cut to 16 bits
PagesNeeded(requestedSize) ==
    LET total == SzAdd(SzAdd(Sz(ALLOC_HEADER_SIZE), requestedSize),
                       Sz(ALLOC_FOOTER_SIZE))
    IN  SzToU16(SzDiv(SzAdd(total, Sz(ALLOC_PAGE_SIZE - 1)), ALLOC_PAGE_SIZE))

\* offset of page pageIdx in the zone (pageAddress minus baseAddress)
PageOffset(pageIdx) == pageIdx * ALLOC_PAGE_SIZE

\* the footer that footerFromHeader finds for the header h at offset hoff; a
\* requestedSize that leads outside every zone finds no record
FooterOf(m, hoff, h) ==
    IF U32FitsInt(h.requestedSize) THEN ReadRecord(m, FooterOffset(hoff, h))
    ELSE BlankRecord

\* verifyQuarantine at ALLOC_QUARANTINE_CHECK_LEVEL 1
VerifyQuarantine(z, m) ==
    \A i \in ActiveSlots(z.quarantine) :
        LET hoff == PageOffset(z.quarantine.entries[i].startPage)
            h    == ReadRecord(m, hoff)
            f    == FooterOf(m, hoff, h)
        IN  ValidateHeader(h) /\ ValidateFooter(f) /\ ValidatePair(h, f)

\* a footer check that looks at the magic only
FooterMagicOnly(h, f) == f.magic = ALLOC_PATTERN_FOOTER_MAGIC

\* if (!validateFooter(footer)) return false;
\* if (!validatePair(header, footer)) return false;
FooterChecks(h, f) == ValidateFooter(f) /\ ValidatePair(h, f)

\* the loop of verifyAllocated from page i
RECURSIVE VerifyAllocatedFrom(_, _, _)
VerifyAllocatedFrom(z, m, i) ==
    IF i >= z.totalPages THEN TRUE
    ELSE IF ~BitmapTest(z.bitmapAllocated, i)
         THEN VerifyAllocatedFrom(z, m, i + 1)
    ELSE The({
           \* a page that does not start an area is passed over
           IF ~ValidateHeader(h) \/ h.startPage # i
           THEN VerifyAllocatedFrom(z, m, i + 1)
           ELSE IF ~FooterChecks(h, FooterOf(m, PageOffset(i), h)) THEN FALSE
           \* i = (uint16_t)(i + pageCount); a valid header with pageCount 0
           \* is not among the states of the model
           ELSE VerifyAllocatedFrom(z, m, (i + h.pageCount) % Pow16)
         : h \in {ReadRecord(m, PageOffset(i))}})

VerifyAllocated(z, m) == VerifyAllocatedFrom(z, m, 0)

\* writeFooter(footerFromHeader(header), ...) stays inside the pages of the
\* block: header + H + requestedSize + F does not pass the end of the block
FooterInBlock(pageCount, requestedSize) ==
    /\ U32FitsInt(requestedSize)
    /\ pageCount * ALLOC_PAGE_SIZE
         >= ALLOC_HEADER_SIZE + U32ToNat(requestedSize) + ALLOC_FOOTER_SIZE

\* Outcome of a zone operation: the zone and its memory afterwards, the value
\* returned, and fault: "none", or "assert" when an ALLOC_ASSERT aborts the
\* program, or "ub" when the operation writes outside the block (what the
\* program does after that is not defined; the model stops there).
Outcome(z, m, ret, fault) == [z |-> z, m |-> m, ret |-> ret, fault |-> fault]

\* a mark that allocate never lowers
LowWaterKept(free, minEver) == minEver

\* if (freePagesCount < minEverFreePages) minEverFreePages = freePagesCount;
LowWater(free, minEver) == IF free < minEver THEN free ELSE minEver

\* a failed search that has already taken a sequence number
NoRunCounted(z, m) ==
    Outcome([z EXCEPT !.sequenceCounter = U32Inc(@)], m, NULL, "none")

\* if (sp32 < 0) return nullptr;
NoRun(z, m) == Outcome(z, m, NULL, "none")

ZoneAllocate(z, m, requestedSize) ==
    IF ~z.initialized \/ SzIsZero(requestedSize) THEN Outcome(z, m, NULL, "none")
    ELSE
    LET pages == PagesNeeded(requestedSize) IN
    IF pages > z.freePagesCount THEN Outcome(z, m, NULL, "none")
    ELSE IF ~VerifyQuarantine(z, m) THEN Outcome(z, m, NULL, "assert")
    ELSE
    LET sp32 == FindFreeRun(z.bitmapInUse, pages) IN
    IF sp32 < 0 THEN NoRun(z, m)
    ELSE
    LET sp   == sp32
        seq  == z.sequenceCounter
        req  == SzToU32(requestedSize)
        hoff == PageOffset(sp)
        hdr  == GuardRecord(ALLOC_PATTERN_HEADER_MAGIC, req, sp, pages,
                            z.zoneIndex, seq)
        ftr  == GuardRecord(ALLOC_PATTERN_FOOTER_MAGIC, req, sp, pages,
                            z.zoneIndex, seq)
        z1 == [z EXCEPT !.sequenceCounter = U32Inc(@),
                        !.bitmapInUse = BitmapSetRange(@, sp, pages),
                        !.bitmapAllocated = BitmapSetRange(@, sp, pages)]
        m1 == WriteRecord(m, hoff, hdr)
    IN
    \* the footer goes to header + H + (uint32_t)requestedSize, wherever
    \* that is: beyond the block it is a write to memory the block does not
    \* own
    IF ~FooterInBlock(pages, req) THEN Outcome(z1, m1, NULL, "ub")
    ELSE
    LET foff == FooterOffset(hoff, hdr)
        m2 == WriteRecord(m1, foff, ftr)
        \* fillPadding over [footer end, block end)
        m3 == FillRange(m2, foff + ALLOC_FOOTER_SIZE,
                        hoff + pages * ALLOC_PAGE_SIZE, ALLOC_PATTERN_PADDING)
        free == z.freePagesCount - pages
        z2 == [z1 EXCEPT !.freePagesCount = free,
                         !.minEverFreePages = LowWater(free, @),
                         !.successfulAllocs = @ + 1]
    IN  Outcome(z2, m3, z.baseAddress + hoff + ALLOC_HEADER_SIZE, "none")

\* an eviction that leaves the pages marked in use
EvictKeepInUse(z, m, entry) ==
    [z |-> [z EXCEPT !.freePagesCount = @ + entry.pageCount], m |-> m]

\* an eviction that forgets every page of the zone
EvictWholeZone(z, m, entry) ==
    [z |-> [z EXCEPT !.bitmapInUse = BitmapInit(z.totalPages),
                     !.freePagesCount = @ + entry.pageCount],
     m |-> m]

\* an eviction that does not give the pages back to the free count
EvictKeepCount(z, m, entry) ==
    [z |-> [z EXCEPT !.bitmapInUse =
                         BitmapClearRange(@, entry.startPage, entry.pageCount)],
     m |-> m]

\* an eviction that clears the memory of the whole zone
EvictWipeZone(z, m, entry) ==
    [z |-> [z EXCEPT !.bitmapInUse =
                         BitmapClearRange(@, entry.startPage, entry.pageCount),
                     !.freePagesCount = @ + entry.pageCount],
     m |-> {}]

\* evictFromQuarantine (ALLOC_ENABLE_CLEAR_ON_EVICT = 1): [z, m] afterwards
EvictFromQuarantine(z, m, entry) ==
    [z |-> [z EXCEPT !.bitmapInUse =
                         BitmapClearRange(@, entry.startPage, entry.pageCount),
                     !.freePagesCount = @ + entry.pageCount],
     m |-> FillRange(m, PageOffset(entry.startPage),
                     PageOffset(entry.startPage + entry.pageCount),
                     ALLOC_PATTERN_CLEARED_PAGE)]

\* a deallocate that counts every call and does nothing else
CountEveryFree(z, m, userPtr) ==
    Outcome([z EXCEPT !.successfulFrees = @ + 1], m, NULL, "none")

ZoneDeallocate(z, m, userPtr) ==
    IF ~z.initialized \/ userPtr = NULL THEN Outcome(z, m, NULL, "none")
    ELSE
    LET hoff == userPtr - z.baseAddress - ALLOC_HEADER_SIZE
        h    == ReadRecord(m, hoff)
        f    == FooterOf(m, hoff, h)
        sp   == h.startPage
        pc   == h.pageCount
    IN
    IF ~(/\ ValidateHeader(h)
         /\ ValidateFooter(f)
         /\ ValidatePair(h, f)
         /\ h.zoneIndex = z.zoneIndex
         /\ sp + pc <= z.totalPages
         /\ VerifyQuarantine(z, m))
    THEN Outcome(z, m, NULL, "assert")
    ELSE
    LET a == QuarantineAdd(z.quarantine, sp, pc, h.requestedSize, z.zoneIndex)
    IN
    IF ~a.ok THEN Outcome(z, m, NULL, "assert")
    ELSE
    LET z1 == [z EXCEPT !.quarantine = a.q]
        e  == IF a.didEvict THEN EvictFromQuarantine(z1, m, a.evicted)
              ELSE [z |-> z1, m |-> m]
        \* fillQuarantinePayload over the payload (ALLOC_FILL_ON_FREE = 1);
        \* header->requestedSize is read again, after the eviction
        m2 == FillRange(e.m, hoff + ALLOC_HEADER_SIZE,
                        hoff + ALLOC_HEADER_SIZE
                            + U32ToNat(ReadRecord(e.m, hoff).requestedSize),
                        ALLOC_PATTERN_QUARANTINE_FILL)
        z2 == [e.z EXCEPT !.bitmapAllocated = BitmapClearRange(@, sp, pc),
                          !.successfulFrees = @ + 1]
    IN  Outcome(z2, m2, NULL, "none")

\* if (ptr != nullptr) std::memset(ptr, 0, total), o the outcome of
\* allocate(total) in the zone z
Zeroed(z, o, total) ==
    IF o.ret = NULL THEN o
    \* memset over a block that holds only the low 32 bits of total runs far
    \* beyond the zone
    ELSE IF ~SzFitsInt(total) THEN Outcome(o.z, o.m, o.ret, "ub")
    ELSE Outcome(o.z,
                 FillRange(o.m, o.ret - z.baseAddress,
                           o.ret - z.baseAddress + SzToNat(total), 0),
                 o.ret, "none")

\* calloc.  The guard  num > 0 && elemSize > SIZE_MAX / num  is the test that
\* the product does not fit a size_t.
ZoneCalloc(z, m, num, elemSize) ==
    IF ~SzIsZero(num) /\ SzMulOverflows(num, elemSize)
    THEN Outcome(z, m, NULL, "none")
    ELSE
    The({The({Zeroed(z, o, total) : o \in {ZoneAllocate(z, m, total)}}) :
            total \in {SzMul(num, elemSize)}})

FreeBytes(z) == IF z.initialized THEN z.freePagesCount * ALLOC_PAGE_SIZE ELSE 0
MinEverFreeBytes(z) ==
    IF z.initialized THEN z.minEverFreePages * ALLOC_PAGE_SIZE ELSE 0
TotalBytes(z) == IF z.initialized THEN z.totalPages * ALLOC_PAGE_SIZE ELSE 0
\* usedBytes() subtracts in size_t: with more free pages than pages it wraps.
UsedBytes(z) == SzSub(Sz(TotalBytes(z)), Sz(FreeBytes(z)))

OwnsPointer(z, userPtr) ==
    /\ z.initialized
    /\ userPtr # NULL
    /\ userPtr >= z.baseAddress + ALLOC_HEADER_SIZE
    /\ userPtr < z.baseAddress + z.totalPages * ALLOC_PAGE_SIZE

(* ------------------------- AllocatorCustomCpp (router) ----------------- *)

ZoneIds == 0..(ALLOC_MAX_ZONES - 1)

HEAP_ZONE_ANY == 0
HEAP_ZONE_FAST == 1
HEAP_ZONE_SLOW == 2
HEAP_ZONE_FAST_PREFER == 3
HEAP_ZONE_SLOW_PREFER == 4
HeapZones == HEAP_ZONE_ANY..HEAP_ZONE_SLOW_PREFER

VARIABLES
    zones,          \* zones_[]: zone index -> PageAllocator state
    activeZones,    \* activeZones_
    currentZone,    \* currentZone_
    initialized,    \* initialized_
    heap,           \* region start address -> memory of that region
    fault,          \* "none", or how the program ended ("assert", "ub")
    last,           \* the last public call: [op, arg, zone that served it, ret]
    live,           \* blocks the caller holds: returned and not yet freed
    table,          \* a QuarantineTable driven on its own
    added,          \* what was added to table: [blocks |-> start pages in
                    \* the order of the adds, past |-> the number of adds
                    \* from the one numbered UINT32_MAX on, 0 before it]
    mpu,            \* MPU region id -> the window [addr, size] it protects,
                    \* NoWindow while the region is free
    lockOwner,      \* the thread that holds g_allocMutex, 0 when it is free
    pc              \* thread -> [op, at, arg]: the public call the thread is
                    \* in and the part of it that it executes next

\* what lies outside the zones: the table driven on its own and the MPU
tableVars == <<table, added, mpu>>

threadVars == <<lockOwner, pc>>

vars == <<zones, activeZones, currentZone, initialized, heap, fault, last, live,
          table, added, mpu, lockOwner, pc>>

\* the MPU regions the allocator may use, none of them held
MpuRegions == ALLOC_MPU_FIRST_REGION..(ALLOC_MPU_FIRST_REGION + ALLOC_MPU_REGION_COUNT - 1)
NoWindow == [addr |-> 0, size |-> 0]
MpuFree == [r \in MpuRegions |-> NoWindow]

\* Threads that call the allocator.
NThreads == 2
Threads == 1..NThreads

\* a thread outside every public call
Idle == [op |-> "idle", at |-> "idle", arg |-> <<>>]

\* The memory regions the platform can hand to defineHeapRegions.
RegionBase == [r \in 1..2 |-> r * 65536]
Bases == {RegionBase[r] : r \in 1..2}

Mem(h, z) == IF z.baseAddress \in DOMAIN h THEN h[z.baseAddress] ELSE {}

ZoneRoute(primary, secondary, trySecondary) ==
    [primary |-> primary, secondary |-> secondary, trySecondary |-> trySecondary]

ResolveRoute(zone) ==
    CASE zone = HEAP_ZONE_FAST -> ZoneRoute(0, 0, FALSE)
      [] zone = HEAP_ZONE_SLOW -> ZoneRoute(1, 1, FALSE)
      [] zone = HEAP_ZONE_FAST_PREFER -> ZoneRoute(0, 1, TRUE)
      [] zone = HEAP_ZONE_SLOW_PREFER -> ZoneRoute(1, 0, TRUE)
      [] OTHER -> ZoneRoute(0, 1, TRUE)

\* State threaded through the attempts of one routed call:
\* [zones, heap, ret, fault, zone |-> index of the zone that answered, or -1,
\*  tried |-> the zones whose allocate or calloc was called, in that order]
Attempt(zs, h) == [zones |-> zs, heap |-> h, ret |-> NULL, fault |-> "none",
                   zone |-> -1, tried |-> <<>>]

\* the attempt after zone i has answered with the outcome o
Answer(st, i, o) ==
    [zones |-> [st.zones EXCEPT ![i] = o.z],
     heap |-> IF o.z.baseAddress \in DOMAIN st.heap
              THEN [st.heap EXCEPT ![o.z.baseAddress] = o.m]
              ELSE st.heap,
     ret |-> o.ret, fault |-> o.fault,
     zone |-> IF o.ret # NULL \/ o.fault # "none" THEN i ELSE -1,
     tried |-> Append(st.tried, i)]

\* p = zones_[i].allocate(size); if (p != nullptr) return p;
TryAllocate(st, i, size) ==
    IF st.ret # NULL \/ st.fault # "none" THEN st
    ELSE The({Answer(st, i, o) :
                o \in {ZoneAllocate(st.zones[i], Mem(st.heap, st.zones[i]), size)}})

\* the loop over the remaining zones, from index i
RECURSIVE TryRemaining(_, _, _, _, _)
TryRemaining(st, route, n, i, size) ==
    IF i >= n THEN st
    ELSE IF \/ i = route.primary
            \/ (route.trySecondary /\ i = route.secondary)
            \/ ~st.zones[i].initialized
         THEN TryRemaining(st, route, n, i + 1, size)
    ELSE The({TryRemaining(s, route, n, i + 1, size) :
                s \in {TryAllocate(st, i, size)}})

\* the attempt in the primary zone
TryPrimary(st, n, route, size) ==
    IF route.primary < n /\ st.zones[route.primary].initialized
    THEN TryAllocate(st, route.primary, size)
    ELSE st

\* a router that never asks the secondary zone
SkipSecondary(st, n, route, size) == st

\* the attempt in the secondary zone
TrySecondary(st, n, route, size) ==
    IF /\ route.trySecondary
       /\ route.secondary < n
       /\ route.secondary # route.primary
       /\ st.zones[route.secondary].initialized
    THEN TryAllocate(st, route.secondary, size)
    ELSE st

AllocateWithRoute(zs, h, n, route, size) ==
    The({TryRemaining(s2, route, n, 0, size) :
            s2 \in {TrySecondary(s1, n, route, size) :
                      s1 \in {TryPrimary(s0, n, route, size) :
                                s0 \in {Attempt(zs, h)}}}})

\* result = zones_[i].calloc(num, size), when no result yet
TryCalloc(st, i, num, size) ==
    IF st.ret # NULL \/ st.fault # "none" THEN st
    ELSE The({Answer(st, i, o) :
                o \in {ZoneCalloc(st.zones[i], Mem(st.heap, st.zones[i]),
                                  num, size)}})

\* calloc in the primary zone
CallocPrimary(st, n, route, num, size) ==
    IF route.primary < n /\ st.zones[route.primary].initialized
    THEN TryCalloc(st, route.primary, num, size)
    ELSE st

\* calloc in the secondary zone, when the primary gave nothing
CallocSecondary(st, n, route, num, size) ==
    IF /\ route.trySecondary
       /\ route.secondary < n
       /\ route.secondary # route.primary
       /\ st.zones[route.secondary].initialized
    THEN TryCalloc(st, route.secondary, num, size)
    ELSE st

CallocWithRoute(zs, h, n, route, num, size) ==
    The({CallocSecondary(s1, n, route, num, size) :
            s1 \in {CallocPrimary(s0, n, route, num, size) :
                      s0 \in {Attempt(zs, h)}}})

\* the first active zone that owns ptr, or -1
OwnerZone(zs, n, ptr) ==
    IF \E i \in ZoneIds : i < n /\ OwnsPointer(zs[i], ptr)
    THEN CHOOSE i \in ZoneIds :
            /\ i < n /\ OwnsPointer(zs[i], ptr)
            /\ \A j \in ZoneIds : j < i => ~OwnsPointer(zs[j], ptr)
    ELSE -1

\* the loop of validateHeap from zone i, ok the result so far
RECURSIVE ValidateHeapFrom(_, _, _, _, _)
ValidateHeapFrom(zs, h, n, i, ok) ==
    IF i >= n THEN ok
    ELSE IF ~zs[i].initialized THEN ValidateHeapFrom(zs, h, n, i + 1, ok)
    ELSE ValidateHeapFrom(zs, h, n, i + 1,
            ok /\ VerifyQuarantine(zs[i], Mem(h, zs[i]))
               /\ VerifyAllocated(zs[i], Mem(h, zs[i])))

ValidateHeap(zs, h, n) == ValidateHeapFrom(zs, h, n, 0, TRUE)

(* ------------------------- inputs -------------------------------------- *)

PagesBytes(k) == Sz(k * ALLOC_PAGE_SIZE)

\* Null-terminated region arrays passed to defineHeapRegions.
\* Two zones, of one and two pages (the first with a tail shorter than a
\* page), or the second region alone:
RegionInputs ==
    { << [start |-> RegionBase[1], size |-> SzAdd(PagesBytes(1), Sz(100))],
         [start |-> RegionBase[2], size |-> PagesBytes(2)] >>,
      << [start |-> RegionBase[2], size |-> PagesBytes(2)] >> }
\* One zone of five pages:
OneZoneRegions == << [start |-> RegionBase[1], size |-> PagesBytes(5)] >>

\* 2^32 + 100: a size whose low 32 bits are 100
SzPow32Plus100 == <<100, 0, 0, 0, 1, 0, 0, 0>>

\* Request sizes: zero, one page, two pages exactly (no padding), 64 MiB
\* (65537 pages), 4 GiB + 100 and the largest size_t.
SizeInputs ==
    { Sz(0), Sz(100), Sz(2 * ALLOC_PAGE_SIZE - ALLOC_HEADER_SIZE - ALLOC_FOOTER_SIZE),
      Sz(Pow16 * ALLOC_PAGE_SIZE), SzPow32Plus100, SIZE_MAX }

CallocInputs ==
    { <<Sz(0), Sz(8)>>, <<Sz(2), Sz(50)>>, <<SIZE_MAX, Sz(2)>>,
      <<Sz(1), SzPow32Plus100>> }

(* ------------------------- the state machine --------------------------- *)

Init ==
    /\ zones = [i \in ZoneIds |-> ZoneZero]
    /\ activeZones = 0
    /\ currentZone = HEAP_ZONE_ANY
    /\ initialized = FALSE
    /\ heap = [b \in Bases |-> {}]
    /\ fault = "none"
    /\ last = [op |-> "start", arg |-> <<>>, zone |-> -1, ret |-> NULL]
    /\ live = {}
    /\ table = QuarantineZero
    /\ added = [blocks |-> <<>>, past |-> 0]
    /\ mpu = MpuFree
    /\ lockOwner = 0
    /\ pc = [t \in Threads |-> Idle]

Min(a, b) == IF a < b THEN a ELSE b

\* the while loop of defineHeapRegions from activeZones_ = n, the cursor on
\* regions[n + 1]: [zones, n |-> activeZones_ afterwards, ok |-> no assert
\* of init failed]
RECURSIVE DefineLoopFrom(_, _, _)
DefineLoopFrom(zs, regions, n) ==
    IF n >= ALLOC_MAX_ZONES \/ n >= Len(regions)
    THEN [zones |-> zs, n |-> n, ok |-> TRUE]
    ELSE IF ZoneInitOk(regions[n + 1].start, regions[n + 1].size)
    THEN DefineLoopFrom([zs EXCEPT ![n] = ZoneInit(regions[n + 1].start,
                                                   regions[n + 1].size, n)],
                        regions, n + 1)
    ELSE [zones |-> [zs EXCEPT ![n] = ZoneInitStopped(zs[n], regions[n + 1].start,
                                                     regions[n + 1].size, n)],
          n |-> n, ok |-> FALSE]

\* defineHeapRegions(regions), regions a null-terminated array; a failed
\* assert leaves what the call has stored so far
DefineHeapRegions(regions) ==
    /\ fault = "none"
    /\ \E d \in {DefineLoopFrom(zones, regions, 0)} :
           /\ zones' = d.zones
           /\ activeZones' = d.n
           /\ initialized' = (d.ok /\ d.n > 0)
           /\ fault' = IF d.ok /\ d.n > 0 THEN "none" ELSE "assert"
    /\ currentZone' = HEAP_ZONE_ANY
    /\ last' = [op |-> "defineHeapRegions", arg |-> regions, zone |-> -1,
                ret |-> NULL]
    /\ live' = {}
    /\ UNCHANGED <<heap, tableVars>>

SetZone(zone) ==
    /\ fault = "none"
    /\ currentZone' = zone
    /\ last' = [op |-> "setZone", arg |-> <<zone>>, zone |-> -1, ret |-> NULL]
    /\ UNCHANGED <<zones, activeZones, initialized, heap, fault, live, tableVars>>

\* the block the caller now holds: its pointer, the zone that gave it, the
\* page its pointer lies in and the page count its header records
NewBlock(ret, zone, zAfter, mAfter) ==
    LET hoff == ret - zAfter.baseAddress - ALLOC_HEADER_SIZE
    IN  [ptr |-> ret, zone |-> zone,
         startPage |-> hoff \div ALLOC_PAGE_SIZE,
         pageCount |-> ReadRecord(mAfter, hoff).pageCount]

WithinBound(zs) == \A i \in ZoneIds : zs[i].successfulAllocs <= MaxAllocs

Allocate(size) ==
    /\ fault = "none"
    /\ \E r \in {AllocateWithRoute(zones, heap, activeZones,
                                     ResolveRoute(currentZone), size)} :
           /\ WithinBound(r.zones)
           /\ zones' = r.zones
           /\ heap' = r.heap
           /\ fault' = r.fault
           /\ last' = [op |-> "allocate", arg |-> <<size>>, zone |-> r.zone,
                    ret |-> r.ret, tried |-> r.tried]
           /\ live' = IF r.ret # NULL /\ r.fault = "none"
                      THEN live \cup {NewBlock(r.ret, r.zone, r.zones[r.zone],
                                               Mem(r.heap, r.zones[r.zone]))}
                      ELSE live
    /\ UNCHANGED <<activeZones, currentZone, initialized, tableVars>>

Calloc(num, size) ==
    /\ fault = "none"
    /\ \E r \in {CallocWithRoute(zones, heap, activeZones,
                                   ResolveRoute(currentZone), num, size)} :
           /\ WithinBound(r.zones)
           /\ zones' = r.zones
           /\ heap' = r.heap
           /\ fault' = r.fault
           /\ last' = [op |-> "calloc", arg |-> <<num, size>>, zone |-> r.zone,
                    ret |-> r.ret, tried |-> r.tried]
           /\ live' = IF r.ret # NULL /\ r.fault = "none"
                      THEN live \cup {NewBlock(r.ret, r.zone, r.zones[r.zone],
                                               Mem(r.heap, r.zones[r.zone]))}
                      ELSE live
    /\ UNCHANGED <<activeZones, currentZone, initialized, tableVars>>

\* deallocate(ptr)
Deallocate(ptr) ==
    /\ fault = "none"
    /\ LET i == OwnerZone(zones, activeZones, ptr)
       IN  IF ptr = NULL
           THEN /\ last' = [op |-> "deallocate", arg |-> <<ptr>>, zone |-> -1,
                            ret |-> NULL]
                /\ UNCHANGED <<zones, heap, fault, live>>
           ELSE IF i < 0
           THEN /\ fault' = "assert"
                /\ last' = [op |-> "deallocate", arg |-> <<ptr>>, zone |-> -1,
                            ret |-> NULL]
                /\ UNCHANGED <<zones, heap, live>>
           ELSE \E o \in {ZoneDeallocate(zones[i], Mem(heap, zones[i]), ptr)} :
                    /\ zones' = [zones EXCEPT ![i] = o.z]
                    /\ heap' = [heap EXCEPT ![zones[i].baseAddress] = o.m]
                    /\ fault' = o.fault
                    /\ last' = [op |-> "deallocate", arg |-> <<ptr>>, zone |-> i,
                                ret |-> NULL]
                    /\ live' = IF o.fault = "none"
                               THEN {b \in live : b.ptr # ptr}
                               ELSE live
    /\ UNCHANGED <<activeZones, currentZone, initialized, tableVars>>

\* One caller: every public call runs from its lock() to its unlock() in one
\* step, the mutex is free before and after.

\* a caller that frees what it holds (or NULL)
FreeHeld ==
    /\ \E ptr \in {b.ptr : b \in live} \cup {NULL} : Deallocate(ptr)
    /\ UNCHANGED threadVars

\* the platform defines the heap once, at start-up
Define ==
    /\ ~initialized
    /\ \E regions \in RegionInputs : DefineHeapRegions(regions)
    /\ UNCHANGED threadVars
Select == (\E zone \in HeapZones : SetZone(zone)) /\ UNCHANGED threadVars
Alloc == (\E size \in SizeInputs : Allocate(size)) /\ UNCHANGED threadVars
CAlloc == (\E c \in CallocInputs : Calloc(c[1], c[2])) /\ UNCHANGED threadVars

\* The allocator over one or two zones, with zone selection.
Next == Define \/ Select \/ Alloc \/ CAlloc \/ FreeHeld

Spec == Init /\ [][Next]_vars

\* One zone of five pages behind the router, the zone selection left at
\* its default.
DefineOne ==
    /\ ~initialized
    /\ DefineHeapRegions(OneZoneRegions)
    /\ UNCHANGED threadVars

NextZone == DefineOne \/ Alloc \/ CAlloc \/ FreeHeld

SpecZone == Init /\ [][NextZone]_vars

(* A QuarantineTable on its own, from init() or from a table that has
   served almost 2^32 adds. *)

\* bound on the adds the ghost remembers
MaxAdds == 7

\* start pages of the blocks added
PageInputs == 0..(ALLOC_QUARANTINE_CAPACITY + 1)

\* (seq - 1) mod Q: the slot, counted from 0, that the add numbered seq
\* fills when every add before it found the table as add leaves it
SlotOfSeq(seq) ==
    (((seq[1] % ALLOC_QUARANTINE_CAPACITY) * (Pow16 % ALLOC_QUARANTINE_CAPACITY)
        + seq[2] - 1) % ALLOC_QUARANTINE_CAPACITY) + 1

\* nextSequence two adds before it wraps
NearWrap == <<Pow16 - 1, Pow16 - 2>>

\* the j-th of the Q sequence numbers before NearWrap, j in 1..Q
SeqBeforeWrap(j) == <<Pow16 - 1, Pow16 - 2 - ALLOC_QUARANTINE_CAPACITY + j - 1>>

\* the table after NearWrap - 1 adds since init(), the last Q of them of
\* the pages 0 .. Q-1
NearWrapTable ==
    [entries |-> [s \in Slots |->
        LET j == CHOOSE k \in 1..ALLOC_QUARANTINE_CAPACITY :
                    SlotOfSeq(SeqBeforeWrap(k)) = s
        IN  [startPage |-> j - 1, pageCount |-> 1, requestedSize |-> U32(100),
             freeSequence |-> SeqBeforeWrap(j), mpuRegion |-> -1,
             zoneIndex |-> 0, active |-> 1]],
     nextSequence |-> NearWrap,
     activeCount |-> ALLOC_QUARANTINE_CAPACITY]

InitQuarantine ==
    /\ zones = [i \in ZoneIds |-> ZoneZero]
    /\ activeZones = 0
    /\ currentZone = HEAP_ZONE_ANY
    /\ initialized = FALSE
    /\ heap = [b \in Bases |-> {}]
    /\ fault = "none"
    /\ last = [op |-> "start", arg |-> <<>>, zone |-> -1, ret |-> NULL]
    /\ live = {}
    /\ lockOwner = 0
    /\ pc = [t \in Threads |-> Idle]
    /\ mpu = MpuFree
    /\ \/ /\ table = QuarantineInit
          /\ added = [blocks |-> <<>>, past |-> 0]
       \/ /\ table = NearWrapTable
          /\ added = [blocks |-> [j \in 1..ALLOC_QUARANTINE_CAPACITY |-> j - 1],
                      past |-> 0]

\* table.add(startPage, 1, 100, 0, &evicted), as deallocate calls it
TableAdd(startPage) ==
    /\ fault = "none"
    /\ Len(added.blocks) < MaxAdds
    /\ LET a == QuarantineAdd(table, startPage, 1, U32(100), 0)
       IN  /\ table' = a.q
           /\ fault' = IF a.ok THEN "none" ELSE "assert"
           /\ added' = IF a.ok
                        THEN [blocks |-> Append(added.blocks, startPage),
                              past |-> IF added.past > 0
                                       THEN added.past + 1
                                       ELSE IF table.nextSequence = UINT32_MAX
                                       THEN 1 ELSE 0]
                        ELSE added
    /\ last' = [op |-> "add", arg |-> <<startPage>>, zone |-> -1, ret |-> NULL]
    /\ UNCHANGED <<zones, activeZones, currentZone, initialized, heap, live, mpu>>

\* a block that is freed is not in the quarantine
AddFreed ==
    \E p \in PageInputs :
        /\ \A s \in ActiveSlots(table) : table.entries[s].startPage # p
        /\ TableAdd(p)
        /\ UNCHANGED threadVars

SpecQuarantine == InitQuarantine /\ [][AddFreed]_vars

(* ------------------------- threads ------------------------------------- *)

(* Several threads call the allocator.  lock() is g_allocMutex.lock() of the
   host build. *)

\* a reset that clears the flags of the router and leaves the zones
ResetFlagsOnly ==
    /\ fault = "none"
    /\ currentZone' = HEAP_ZONE_ANY
    /\ initialized' = FALSE
    /\ last' = [op |-> "resetState", arg |-> <<>>, zone |-> -1, ret |-> NULL]
    /\ live' = {}
    /\ UNCHANGED <<zones, activeZones, heap, fault, tableVars>>

\* resetState, between lock() and unlock()
ResetState ==
    /\ fault = "none"
    /\ zones' = [i \in ZoneIds |-> IF i < activeZones THEN ZoneZero ELSE zones[i]]
    /\ activeZones' = 0
    /\ currentZone' = HEAP_ZONE_ANY
    /\ initialized' = FALSE
    /\ last' = [op |-> "resetState", arg |-> <<>>, zone |-> -1, ret |-> NULL]
    /\ live' = {}
    /\ UNCHANGED <<heap, fault, tableVars>>

\* the loop of getFreeHeapSize over the zones from index i
RECURSIVE FreeHeapFrom(_, _, _)
FreeHeapFrom(zs, n, i) ==
    IF i >= n THEN 0 ELSE FreeBytes(zs[i]) + FreeHeapFrom(zs, n, i + 1)

\* the loop of getTotalHeapSize over the zones from index i
RECURSIVE TotalHeapFrom(_, _, _)
TotalHeapFrom(zs, n, i) ==
    IF i >= n THEN 0 ELSE TotalBytes(zs[i]) + TotalHeapFrom(zs, n, i + 1)

\* getFreeHeapSize, between lock() and unlock()
GetFreeHeapSize ==
    /\ fault = "none"
    /\ last' = [op |-> "getFreeHeapSize", arg |-> <<>>, zone |-> -1,
                ret |-> FreeHeapFrom(zones, activeZones, 0)]
    /\ UNCHANGED <<zones, activeZones, currentZone, initialized, heap, fault,
                   live, tableVars>>

\* bound on the blocks the threads allocate from one zone between resets
MaxThreadAllocs == 1

(* A thread inside a call is at one access to activeZones_, currentZone_ or
   initialized_, together with the call on one zone that its test of
   activeZones_ guards: pc[t].at names the access, the other fields of
   pc[t] are the locals of the call.  defineHeapRegions takes no lock, so
   its accesses fall between those of the call that holds the mutex. *)

\* bound on the calls one thread makes
MaxThreadCalls == 3

\* a thread outside every public call, after k calls
Outside(k) == [op |-> "idle", at |-> "idle", arg |-> <<k>>]

\* the thread may enter a call
MayCall(t) ==
    /\ fault = "none"
    /\ pc[t].op = "idle"
    /\ pc[t].arg[1] < MaxThreadCalls

\* the thread after the call it is in
Returned(t) == Outside(pc[t].calls + 1)

\* a call of thread t that locks, at lock(): route, i, total and tried are
\* its locals (the route, the loop index, the sum, the zones asked so far),
\* calls the calls of the thread before this one
Call(t, op, at, arg) ==
    [op |-> op, at |-> at, arg |-> arg, route |-> ZoneRoute(0, 0, FALSE),
     i |-> 0, total |-> 0, tried |-> <<>>, calls |-> pc[t].arg[1]]

\* The calls that lock, with their arguments.
ThreadZones == {HEAP_ZONE_ANY, HEAP_ZONE_SLOW}
LockedCalls(t) ==
    {Call(t, op, "route", <<Sz(100)>>) :
        op \in IF \A i \in ZoneIds : zones[i].successfulAllocs < MaxThreadAllocs
               THEN {"allocate"} ELSE {}}
    \cup {Call(t, op, "route", <<Sz(2), Sz(50)>>) :
        op \in IF \A i \in ZoneIds : zones[i].successfulAllocs < MaxThreadAllocs
               THEN {"calloc"} ELSE {}}
    \cup {Call(t, "resetState", "zones", <<>>), Call(t, "getFreeHeapSize", "sum", <<>>)}
    \cup {Call(t, "setZone", "set", <<zone>>) : zone \in ThreadZones}
    \cup {Call(t, "deallocate", "find", <<b.ptr>>) : b \in live}

\* lock(): the thread enters a call and gets the mutex
Lock(t) ==
    /\ MayCall(t)
    /\ lockOwner = 0
    /\ \E c \in LockedCalls(t) : pc' = [pc EXCEPT ![t] = c]
    /\ lockOwner' = t
    /\ UNCHANGED <<zones, activeZones, currentZone, initialized, heap, fault,
                   last, live, tableVars>>

\* the thread is in the call op at the part named, and holds the mutex
Locked(t, op, at) ==
    /\ fault = "none"
    /\ pc[t].op = op /\ pc[t].at = at
    /\ lockOwner = t

\* the thread goes on to another part of its call
GoOn(t, c) ==
    /\ pc' = [pc EXCEPT ![t] = c]
    /\ UNCHANGED <<last, live, lockOwner>>

\* unlock(); return ret;
Return(t, zone, ret) ==
    /\ last' = [op |-> pc[t].op, arg |-> pc[t].arg, zone |-> zone, ret |-> ret]
    /\ pc' = [pc EXCEPT ![t] = Returned(t)]
    /\ lockOwner' = 0

\* the attempt st of allocate or calloc is over: the call returns what the
\* attempt gave (always, when at is "return"), or goes on at the part named
\* with the loop index i
Attempted(t, st, at, i) ==
    /\ zones' = st.zones
    /\ heap' = st.heap
    /\ fault' = st.fault
    /\ IF st.ret # NULL \/ st.fault # "none" \/ at = "return"
       THEN /\ last' = [op |-> pc[t].op, arg |-> pc[t].arg, zone |-> st.zone,
                        ret |-> st.ret, tried |-> pc[t].tried \o st.tried]
            /\ live' = IF st.ret # NULL /\ st.fault = "none"
                       THEN live \cup {NewBlock(st.ret, st.zone,
                                                st.zones[st.zone],
                                                Mem(st.heap, st.zones[st.zone]))}
                       ELSE live
            /\ pc' = [pc EXCEPT ![t] = Returned(t)]
            /\ lockOwner' = 0
       ELSE GoOn(t, [pc[t] EXCEPT !.at = at, !.i = i,
                                  !.tried = @ \o st.tried])
    /\ UNCHANGED <<activeZones, currentZone, initialized, tableVars>>

\* const ZoneRoute route = resolveRoute(currentZone_);
Route(t) ==
    /\ Locked(t, "allocate", "route") \/ Locked(t, "calloc", "route")
    /\ GoOn(t, [pc[t] EXCEPT !.at = "primary",
                             !.route = ResolveRoute(currentZone)])
    /\ UNCHANGED <<zones, activeZones, currentZone, initialized, heap, fault,
                   tableVars>>

\* allocateWithRoute, the attempt in the primary zone: activeZones_ is read
AllocatePrimary(t) ==
    /\ Locked(t, "allocate", "primary")
    /\ \E st \in {TryPrimary(Attempt(zones, heap), activeZones, pc[t].route,
                             pc[t].arg[1])} :
          Attempted(t, st, "secondary", 0)

\* allocateWithRoute, the attempt in the secondary zone: activeZones_ is
\* read again
AllocateSecondary(t) ==
    /\ Locked(t, "allocate", "secondary")
    /\ \E st \in {TrySecondary(Attempt(zones, heap), activeZones, pc[t].route,
                               pc[t].arg[1])} :
          Attempted(t, st, "remaining", 0)

\* allocateWithRoute, one turn of the loop over the remaining zones: it
\* reads activeZones_ for i < activeZones_, and the loop ends in return
\* nullptr
AllocateRemaining(t) ==
    /\ Locked(t, "allocate", "remaining")
    /\ IF pc[t].i < activeZones
       THEN \E st \in {TryRemaining(Attempt(zones, heap), pc[t].route,
                                    pc[t].i + 1, pc[t].i, pc[t].arg[1])} :
               Attempted(t, st, "remaining", pc[t].i + 1)
       ELSE Attempted(t, Attempt(zones, heap), "return", 0)

\* calloc, the primary zone: activeZones_ is read
CallocFirst(t) ==
    /\ Locked(t, "calloc", "primary")
    /\ \E st \in {CallocPrimary(Attempt(zones, heap), activeZones, pc[t].route,
                                pc[t].arg[1], pc[t].arg[2])} :
          Attempted(t, st, "secondary", 0)

\* calloc, the secondary zone: activeZones_ is read again; unlock(); return
CallocSecond(t) ==
    /\ Locked(t, "calloc", "secondary")
    /\ \E st \in {CallocSecondary(Attempt(zones, heap), activeZones,
                                  pc[t].route, pc[t].arg[1], pc[t].arg[2])} :
          Attempted(t, st, "return", 0)

\* deallocate, one turn of the loop that looks for the zone of ptr: it reads
\* activeZones_ for i < activeZones_, and the loop ends in the assert
DeallocateFind(t) ==
    /\ Locked(t, "deallocate", "find")
    /\ \E i \in {pc[t].i}, ptr \in {pc[t].arg[1]} :
          IF i >= activeZones
          THEN /\ fault' = "assert"
               /\ Return(t, -1, NULL)
               /\ UNCHANGED <<zones, heap, live>>
          ELSE IF ~OwnsPointer(zones[i], ptr)
          THEN /\ GoOn(t, [pc[t] EXCEPT !.i = i + 1])
               /\ UNCHANGED <<zones, heap, fault>>
          ELSE \E o \in {ZoneDeallocate(zones[i], Mem(heap, zones[i]), ptr)} :
                  /\ zones' = [zones EXCEPT ![i] = o.z]
                  /\ heap' = [heap EXCEPT ![zones[i].baseAddress] = o.m]
                  /\ fault' = o.fault
                  /\ live' = IF o.fault = "none"
                             THEN {b \in live : b.ptr # ptr}
                             ELSE live
                  /\ Return(t, i, NULL)
    /\ UNCHANGED <<activeZones, currentZone, initialized, tableVars>>

\* setZone: currentZone_ = zone; unlock();
SetZoneStore(t) ==
    /\ Locked(t, "setZone", "set")
    /\ currentZone' = pc[t].arg[1]
    /\ Return(t, -1, NULL)
    /\ UNCHANGED <<zones, activeZones, initialized, heap, fault, live,
                   tableVars>>

\* resetState, one turn of the loop: it reads activeZones_ for
\* i < activeZones_ and clears zones_[i]
ResetStateZones(t) ==
    /\ Locked(t, "resetState", "zones")
    /\ IF pc[t].i < activeZones
       THEN /\ zones' = [zones EXCEPT ![pc[t].i] = ZoneZero]
            /\ GoOn(t, [pc[t] EXCEPT !.i = @ + 1])
       ELSE /\ GoOn(t, [pc[t] EXCEPT !.at = "count"])
            /\ UNCHANGED zones
    /\ UNCHANGED <<activeZones, currentZone, initialized, heap, fault,
                   tableVars>>

\* resetState: activeZones_ = 0U;
ResetStateCount(t) ==
    /\ Locked(t, "resetState", "count")
    /\ activeZones' = 0
    /\ GoOn(t, [pc[t] EXCEPT !.at = "current"])
    /\ UNCHANGED <<zones, currentZone, initialized, heap, fault, tableVars>>

\* resetState: currentZone_ = HEAP_ZONE_ANY;
ResetStateCurrent(t) ==
    /\ Locked(t, "resetState", "current")
    /\ currentZone' = HEAP_ZONE_ANY
    /\ GoOn(t, [pc[t] EXCEPT !.at = "flag"])
    /\ UNCHANGED <<zones, activeZones, initialized, heap, fault, tableVars>>

\* resetState: initialized_ = false; unlock();  The caller holds no block
\* of the heap it has reset.
ResetStateFlag(t) ==
    /\ Locked(t, "resetState", "flag")
    /\ initialized' = FALSE
    /\ live' = {}
    /\ Return(t, -1, NULL)
    /\ UNCHANGED <<zones, activeZones, currentZone, heap, fault, tableVars>>

\* getFreeHeapSize, one turn of the loop: it reads activeZones_ for
\* i < activeZones_ and adds zones_[i].freeBytes(); the loop ends in
\* unlock(); return total;
GetFreeHeapSizeSum(t) ==
    /\ Locked(t, "getFreeHeapSize", "sum")
    /\ IF pc[t].i < activeZones
       THEN GoOn(t, [pc[t] EXCEPT !.i = @ + 1,
                                  !.total = @ + FreeBytes(zones[pc[t].i])])
       ELSE /\ Return(t, -1, pc[t].total)
            /\ UNCHANGED live
    /\ UNCHANGED <<zones, activeZones, currentZone, initialized, heap, fault,
                   tableVars>>

\* getUsedHeapSize: return getTotalHeapSize() - getFreeHeapSize().  The two
\* calls lock and unlock one after the other, in either order (the operands
\* of - are unsequenced), the mutex is free in between, and the difference
\* is a size_t.  arg = <<the operand evaluated first>>, then <<the operand,
\* what it returned>>.

\* what the loop of the operand named adds for the zone z
UsedOperand(name, z) == IF name = "total" THEN TotalBytes(z) ELSE FreeBytes(z)

\* the operand evaluated after the operand named
OtherOperand(name) == IF name = "total" THEN "free" ELSE "total"

\* lock() of the operand evaluated first
GetUsedHeapSizeCall(t) ==
    /\ MayCall(t)
    /\ lockOwner = 0
    /\ \E name \in {"total", "free"} :
          pc' = [pc EXCEPT ![t] = Call(t, "getUsedHeapSize", "first", <<name>>)]
    /\ lockOwner' = t
    /\ UNCHANGED <<zones, activeZones, currentZone, initialized, heap, fault,
                   last, live, tableVars>>

\* one turn of the loop of the operand evaluated first: it reads
\* activeZones_ for i < activeZones_; the loop ends in unlock()
GetUsedHeapSizeFirst(t) ==
    /\ Locked(t, "getUsedHeapSize", "first")
    /\ IF pc[t].i < activeZones
       THEN /\ pc' = [pc EXCEPT ![t].i = @ + 1,
                                ![t].total = @ + UsedOperand(pc[t].arg[1],
                                                             zones[pc[t].i])]
            /\ UNCHANGED lockOwner
       ELSE /\ pc' = [pc EXCEPT ![t].at = "between",
                                ![t].arg = <<pc[t].arg[1], pc[t].total>>]
            /\ lockOwner' = 0
    /\ UNCHANGED <<zones, activeZones, currentZone, initialized, heap, fault,
                   last, live, tableVars>>

\* lock() of the other operand
GetUsedHeapSizeLock(t) ==
    /\ fault = "none"
    /\ pc[t].op = "getUsedHeapSize" /\ pc[t].at = "between"
    /\ lockOwner = 0
    /\ pc' = [pc EXCEPT ![t].at = "second", ![t].i = 0, ![t].total = 0]
    /\ lockOwner' = t
    /\ UNCHANGED <<zones, activeZones, currentZone, initialized, heap, fault,
                   last, live, tableVars>>

\* one turn of the loop of the other operand; the loop ends in unlock() and
\* the return of the difference
GetUsedHeapSize(t) ==
    /\ Locked(t, "getUsedHeapSize", "second")
    /\ IF pc[t].i < activeZones
       THEN /\ GoOn(t, [pc[t] EXCEPT
                            !.i = @ + 1,
                            !.total = @ + UsedOperand(OtherOperand(pc[t].arg[1]),
                                                      zones[pc[t].i])])
       ELSE /\ last' = [op |-> "getUsedHeapSize", arg |-> <<>>, zone |-> -1,
                        ret |-> IF pc[t].arg[1] = "total"
                                THEN SzSub(Sz(pc[t].arg[2]), Sz(pc[t].total))
                                ELSE SzSub(Sz(pc[t].total), Sz(pc[t].arg[2]))]
            /\ pc' = [pc EXCEPT ![t] = Returned(t)]
            /\ lockOwner' = 0
            /\ UNCHANGED live
    /\ UNCHANGED <<zones, activeZones, currentZone, initialized, heap, fault,
                   tableVars>>

\* defineHeapRegions(regions) is entered: it takes no lock.  The platform
\* calls it on an allocator that reports no zone and is not initialised.
\* cur is the local cursor (the index of *cur in regions); zone, index and
\* count are the values of activeZones_ the turn has loaded: the index of
\* zones_[activeZones_], the argument of init, the operand of ++.
DefineCall(t) ==
    /\ MayCall(t)
    /\ ~initialized
    /\ activeZones = 0
    /\ \A u \in Threads : pc[u].op # "defineHeapRegions"
    /\ \E regions \in RegionInputs :
          pc' = [pc EXCEPT ![t] = [op |-> "defineHeapRegions", at |-> "count",
                                   arg |-> regions, cur |-> 1, zone |-> 0,
                                   calls |-> pc[t].arg[1],
                                   index |-> 0, count |-> 0]]
    /\ UNCHANGED <<zones, activeZones, currentZone, initialized, heap, fault,
                   last, live, lockOwner, tableVars>>

\* the thread is in defineHeapRegions at the part named
Defining(t, at) ==
    /\ fault = "none"
    /\ pc[t].op = "defineHeapRegions" /\ pc[t].at = at

\* activeZones_ = 0U;
DefineCount(t) ==
    /\ Defining(t, "count")
    /\ activeZones' = 0
    /\ GoOn(t, [pc[t] EXCEPT !.at = "current"])
    /\ UNCHANGED <<zones, currentZone, initialized, heap, fault, tableVars>>

\* currentZone_ = HEAP_ZONE_ANY;
DefineCurrent(t) ==
    /\ Defining(t, "current")
    /\ currentZone' = HEAP_ZONE_ANY
    /\ GoOn(t, [pc[t] EXCEPT !.at = "flag"])
    /\ UNCHANGED <<zones, activeZones, initialized, heap, fault, tableVars>>

\* initialized_ = false;
DefineFlag(t) ==
    /\ Defining(t, "flag")
    /\ initialized' = FALSE
    /\ GoOn(t, [pc[t] EXCEPT !.at = "loop"])
    /\ UNCHANGED <<zones, activeZones, currentZone, heap, fault, tableVars>>

\* the condition of the while loop of defineHeapRegions, for the call c:
\* activeZones_ < ALLOC_MAX_ZONES and *cur is not the terminator
DefineMore(c) ==
    activeZones < ALLOC_MAX_ZONES /\ c.cur <= Len(c.arg)

\* the loop condition is tested, with activeZones_ as it is now
DefineLoop(t) ==
    /\ Defining(t, "loop")
    /\ GoOn(t, [pc[t] EXCEPT !.at = IF DefineMore(pc[t]) THEN "index"
                                    ELSE "assert"])
    /\ UNCHANGED <<zones, activeZones, currentZone, initialized, heap, fault,
                   tableVars>>

\* zones_[activeZones_]: the zone init is called on
DefineIndex(t) ==
    /\ Defining(t, "index")
    /\ GoOn(t, [pc[t] EXCEPT !.at = "argument", !.zone = activeZones])
    /\ UNCHANGED <<zones, activeZones, currentZone, initialized, heap, fault,
                   tableVars>>

\* the third argument of init: activeZones_ is loaded again
DefineArgument(t) ==
    /\ Defining(t, "argument")
    /\ GoOn(t, [pc[t] EXCEPT !.at = "init", !.index = activeZones])
    /\ UNCHANGED <<zones, activeZones, currentZone, initialized, heap, fault,
                   tableVars>>

\* init runs on the zone it was called on, with the zone index it was given
DefineZone(t) ==
    /\ Defining(t, "init")
    /\ \E r \in {pc[t].arg[pc[t].cur]} :
          IF ZoneInitOk(r.start, r.size)
          THEN /\ zones' = [zones EXCEPT ![pc[t].zone] =
                                ZoneInit(r.start, r.size, pc[t].index)]
               /\ GoOn(t, [pc[t] EXCEPT !.at = "load"])
               /\ UNCHANGED fault
          ELSE /\ zones' = [zones EXCEPT ![pc[t].zone] =
                                ZoneInitStopped(@, r.start, r.size, pc[t].index)]
               /\ fault' = "assert"
               /\ UNCHANGED <<pc, last, live, lockOwner>>
    /\ UNCHANGED <<activeZones, currentZone, initialized, heap, tableVars>>

\* ++activeZones_, the load
DefineLoad(t) ==
    /\ Defining(t, "load")
    /\ GoOn(t, [pc[t] EXCEPT !.at = "store", !.count = activeZones])
    /\ UNCHANGED <<zones, activeZones, currentZone, initialized, heap, fault,
                   tableVars>>

\* ++activeZones_, the store (a uint8_t); ++cur;
DefineStore(t) ==
    /\ Defining(t, "store")
    /\ activeZones' = (pc[t].count + 1) % 256
    /\ GoOn(t, [pc[t] EXCEPT !.at = "loop", !.cur = @ + 1])
    /\ UNCHANGED <<zones, currentZone, initialized, heap, fault, tableVars>>

\* ALLOC_ASSERT(activeZones_ > 0U);
DefineAssert(t) ==
    /\ Defining(t, "assert")
    /\ IF activeZones > 0
       THEN GoOn(t, [pc[t] EXCEPT !.at = "end"]) /\ UNCHANGED fault
       ELSE /\ fault' = "assert"
            /\ last' = [op |-> "defineHeapRegions", arg |-> pc[t].arg,
                        zone |-> -1, ret |-> NULL]
            /\ UNCHANGED <<pc, live, lockOwner>>
    /\ UNCHANGED <<zones, activeZones, currentZone, initialized, heap,
                   tableVars>>

\* initialized_ = true; and the return
DefineEnd(t) ==
    /\ Defining(t, "end")
    /\ initialized' = TRUE
    /\ last' = [op |-> "defineHeapRegions", arg |-> pc[t].arg, zone |-> -1,
                ret |-> NULL]
    /\ pc' = [pc EXCEPT ![t] = Returned(t)]
    /\ UNCHANGED <<zones, activeZones, currentZone, heap, fault, live,
                   lockOwner, tableVars>>

\* getZone() is entered: it takes no lock
GetZoneCall(t) ==
    /\ MayCall(t)
    /\ pc' = [pc EXCEPT ![t] = [op |-> "getZone", at |-> "read", arg |-> <<>>,
                               calls |-> pc[t].arg[1]]]
    /\ UNCHANGED <<zones, activeZones, currentZone, initialized, heap, fault,
                   last, live, lockOwner, tableVars>>

\* return currentZone_;
GetZoneRead(t) ==
    /\ fault = "none"
    /\ pc[t].op = "getZone" /\ pc[t].at = "read"
    /\ last' = [op |-> "getZone", arg |-> <<>>, zone |-> -1, ret |-> currentZone]
    /\ pc' = [pc EXCEPT ![t] = Returned(t)]
    /\ UNCHANGED <<zones, activeZones, currentZone, initialized, heap, fault,
                   live, lockOwner, tableVars>>

NextThreads ==
    \E t \in Threads :
        \/ Lock(t)
        \/ Route(t)
        \/ AllocatePrimary(t)
        \/ AllocateSecondary(t)
        \/ AllocateRemaining(t)
        \/ CallocFirst(t)
        \/ CallocSecond(t)
        \/ DeallocateFind(t)
        \/ SetZoneStore(t)
        \/ ResetStateZones(t)
        \/ ResetStateCount(t)
        \/ ResetStateCurrent(t)
        \/ ResetStateFlag(t)
        \/ GetFreeHeapSizeSum(t)
        \/ DefineCall(t)
        \/ DefineCount(t)
        \/ DefineCurrent(t)
        \/ DefineFlag(t)
        \/ DefineLoop(t)
        \/ DefineIndex(t)
        \/ DefineArgument(t)
        \/ DefineZone(t)
        \/ DefineLoad(t)
        \/ DefineStore(t)
        \/ DefineAssert(t)
        \/ DefineEnd(t)
        \/ GetZoneCall(t)
        \/ GetZoneRead(t)
        \/ GetUsedHeapSizeCall(t)
        \/ GetUsedHeapSizeFirst(t)
        \/ GetUsedHeapSizeLock(t)
        \/ GetUsedHeapSize(t)

InitThreads ==
    /\ zones = [i \in ZoneIds |-> ZoneZero]
    /\ activeZones = 0
    /\ currentZone = HEAP_ZONE_ANY
    /\ initialized = FALSE
    /\ heap = [b \in Bases |-> {}]
    /\ fault = "none"
    /\ last = [op |-> "start", arg |-> <<>>, zone |-> -1, ret |-> NULL]
    /\ live = {}
    /\ table = QuarantineZero
    /\ added = [blocks |-> <<>>, past |-> 0]
    /\ mpu = MpuFree
    /\ lockOwner = 0
    /\ pc = [t \in Threads |-> Outside(0)]

SpecThreads == InitThreads /\ [][NextThreads]_vars

(* ------------------------- damaged guards ------------------------------ *)

(* One zone, and something outside the allocator that writes over the
   footer or the header of a block the caller holds. *)

\* validateHeap, between lock() and unlock()
CheckHeap ==
    /\ fault = "none"
    /\ initialized
    /\ last' = [op |-> "validateHeap", arg |-> <<>>, zone |-> -1,
                ret |-> ValidateHeap(zones, heap, activeZones)]
    /\ UNCHANGED <<zones, activeZones, currentZone, initialized, heap, fault,
                   live, tableVars, threadVars>>

\* one bit of a 32-bit word changed
FlipBit(w) == <<w[1], IF w[2] % 2 = 0 THEN w[2] + 1 ELSE w[2] - 1>>

\* What a stray write makes of a guard record r: a changed magic, a changed
\* checksum, a changed size, zeroes, or another size or sequence number
\* under a checksum that fits it.
DamageKinds == {"magic", "checksum", "size", "zero", "size+sum", "seq+sum"}

WithSum(r) == [r EXCEPT !.checksum = ComputeChecksum(r)]

Damaged(r, kind) ==
    CASE kind = "magic" -> [r EXCEPT !.magic = FlipBit(@)]
      [] kind = "checksum" -> [r EXCEPT !.checksum = FlipBit(@)]
      [] kind = "size" -> [r EXCEPT !.requestedSize = FlipBit(@)]
      [] kind = "zero" -> BlankRecord
      [] kind = "size+sum" -> WithSum([r EXCEPT !.requestedSize = FlipBit(@)])
      [] kind = "seq+sum" -> WithSum([r EXCEPT !.sequenceNum = FlipBit(@)])

\* offsets, in its zone, of the header and of the footer of a block held
HeaderOffsetOf(b) == b.ptr - zones[b.zone].baseAddress - ALLOC_HEADER_SIZE
FooterOffsetOf(b) ==
    FooterOffset(HeaderOffsetOf(b),
                 ReadRecord(Mem(heap, zones[b.zone]), HeaderOffsetOf(b)))

\* the record at offset off of the zone of b is overwritten
Overwrite(b, off, kind) ==
    /\ fault = "none"
    /\ heap' = [heap EXCEPT ![zones[b.zone].baseAddress] =
                   WriteRecord(@, off, Damaged(ReadRecord(@, off), kind))]
    /\ last' = [op |-> "damage", arg |-> <<b.ptr, off, kind>>, zone |-> b.zone,
                ret |-> NULL]
    /\ UNCHANGED <<zones, activeZones, currentZone, initialized, fault, live,
                   tableVars, threadVars>>

\* the guards of the block are as allocate wrote them
Intact(b) ==
    LET h == ReadRecord(Mem(heap, zones[b.zone]), HeaderOffsetOf(b))
        f == FooterOf(Mem(heap, zones[b.zone]), HeaderOffsetOf(b), h)
    IN  ValidateHeader(h) /\ ValidateFooter(f) /\ ValidatePair(h, f)

\* the footer of a live block is damaged, in a heap intact so far
CorruptFooter ==
    /\ \A c \in live : Intact(c)
    /\ \E b \in live, kind \in DamageKinds : Overwrite(b, FooterOffsetOf(b), kind)

\* the header of a live block is damaged so that it fails validation, in a
\* heap intact so far
CorruptHeader ==
    /\ \A c \in live : Intact(c)
    /\ \E b \in live, kind \in {"magic", "checksum", "size", "zero"} :
          Overwrite(b, HeaderOffsetOf(b), kind)

\* requests of one page and of two pages
GuardSizeInputs ==
    {Sz(100), Sz(2 * ALLOC_PAGE_SIZE - ALLOC_HEADER_SIZE - ALLOC_FOOTER_SIZE)}

AllocGuarded ==
    (\E size \in GuardSizeInputs : Allocate(size)) /\ UNCHANGED threadVars

NextFooter == DefineOne \/ AllocGuarded \/ FreeHeld \/ CorruptFooter \/ CheckHeap

SpecFooter == Init /\ [][NextFooter]_vars

NextGuards ==
    DefineOne \/ AllocGuarded \/ FreeHeld \/ CorruptFooter \/ CorruptHeader
        \/ CheckHeap

SpecGuards == Init /\ [][NextGuards]_vars

(* ------------------------- allocate and free at once ------------------- *)

(* One zone with the quarantine capacity of the default build, and a caller
   that repeats: p = allocate(100); deallocate(p). *)

\* ALLOC_QUARANTINE_CAPACITY as AllocConf.h defines it
DefaultCapacity == 32

\* bound on the number of rounds
MaxRounds == 34

\* zone sizes, in pages
RoundPages == {16, 32, 33, 34}

\* the caller is about to execute part at of round k
Round(k, at) == [op |-> "round", at |-> at, arg |-> <<k>>]

InitRounds ==
    /\ \E n \in RoundPages :
          zones = [i \in ZoneIds |->
                     IF i = 0
                     THEN [ZoneInit(RegionBase[1], PagesBytes(n), 0)
                             EXCEPT !.quarantine = QuarantineInitOf(DefaultCapacity)]
                     ELSE ZoneZero]
    /\ activeZones = 1
    /\ currentZone = HEAP_ZONE_ANY
    /\ initialized = TRUE
    /\ heap = [b \in Bases |-> {}]
    /\ fault = "none"
    /\ last = [op |-> "start", arg |-> <<>>, zone |-> -1, ret |-> NULL]
    /\ live = {}
    /\ table = QuarantineZero
    /\ added = [blocks |-> <<>>, past |-> 0]
    /\ mpu = MpuFree
    /\ lockOwner = 0
    /\ pc = [t \in Threads |-> IF t = 1 THEN Round(1, "allocate") ELSE Idle]

\* p = allocate(100) on the zone
RoundAllocate ==
    /\ fault = "none"
    /\ pc[1].op = "round" /\ pc[1].at = "allocate"
    /\ pc[1].arg[1] <= MaxRounds
    /\ \E o \in {ZoneAllocate(zones[0], Mem(heap, zones[0]), Sz(100))} :
          /\ zones' = [zones EXCEPT ![0] = o.z]
          /\ heap' = [heap EXCEPT ![zones[0].baseAddress] = o.m]
          /\ fault' = o.fault
          /\ last' = [op |-> "allocate", arg |-> <<Sz(100)>>,
                      zone |-> IF o.ret # NULL THEN 0 ELSE -1, ret |-> o.ret,
                      tried |-> <<0>>]
          /\ live' = IF o.ret # NULL /\ o.fault = "none"
                     THEN live \cup {NewBlock(o.ret, 0, o.z, o.m)}
                     ELSE live
    /\ pc' = [pc EXCEPT ![1] = Round(pc[1].arg[1], "deallocate")]
    /\ UNCHANGED <<activeZones, currentZone, initialized, tableVars, lockOwner>>

\* deallocate(p) on the zone
RoundFree ==
    /\ fault = "none"
    /\ pc[1].op = "round" /\ pc[1].at = "deallocate"
    /\ \E o \in {ZoneDeallocate(zones[0], Mem(heap, zones[0]), last.ret)} :
          /\ zones' = [zones EXCEPT ![0] = o.z]
          /\ heap' = [heap EXCEPT ![zones[0].baseAddress] = o.m]
          /\ fault' = o.fault
          /\ last' = [op |-> "deallocate", arg |-> <<last.ret>>, zone |-> 0,
                      ret |-> NULL]
          /\ live' = IF o.fault = "none"
                     THEN {b \in live : b.ptr # last.ret}
                     ELSE live
    /\ pc' = [pc EXCEPT ![1] = Round(pc[1].arg[1] + 1, "allocate")]
    /\ UNCHANGED <<activeZones, currentZone, initialized, tableVars, lockOwner>>

NextRounds == RoundAllocate \/ RoundFree

SpecRounds == InitRounds /\ [][NextRounds]_vars

(* ------------------------- start-up, reset and queries ----------------- *)

(* One caller that defines the heap, uses it, asks for the statistics,
   resets the allocator and defines the heap again. *)

\* the loop of getMinimumEverFreeBytes over the zones from index i
RECURSIVE MinEverFreeFrom(_, _, _)
MinEverFreeFrom(zs, n, i) ==
    IF i >= n THEN 0 ELSE MinEverFreeBytes(zs[i]) + MinEverFreeFrom(zs, n, i + 1)

\* HeapStats_t after memset(stats, 0, sizeof(HeapStats_t)): the fields that
\* getHeapStats adds to
HeapStatsZero ==
    [xAvailableHeapSpaceInBytes |-> 0, xMinimumEverFreeBytesRemaining |-> 0,
     xNumberOfSuccessfulAllocations |-> 0, xNumberOfSuccessfulFrees |-> 0]

\* the loop of getHeapStats over the zones from index i
RECURSIVE HeapStatsFrom(_, _, _, _)
HeapStatsFrom(zs, n, i, stats) ==
    IF i >= n THEN stats
    ELSE HeapStatsFrom(zs, n, i + 1,
            [xAvailableHeapSpaceInBytes |->
                 stats.xAvailableHeapSpaceInBytes + FreeBytes(zs[i]),
             xMinimumEverFreeBytesRemaining |->
                 stats.xMinimumEverFreeBytesRemaining + MinEverFreeBytes(zs[i]),
             xNumberOfSuccessfulAllocations |->
                 stats.xNumberOfSuccessfulAllocations + zs[i].successfulAllocs,
             xNumberOfSuccessfulFrees |->
                 stats.xNumberOfSuccessfulFrees + zs[i].successfulFrees])

\* a query: it returns ret and leaves the allocator as it is
Query(op, ret) ==
    /\ fault = "none"
    /\ last' = [op |-> op, arg |-> <<>>, zone |-> -1, ret |-> ret]
    /\ UNCHANGED <<zones, activeZones, currentZone, initialized, heap, fault,
                   live, tableVars>>

GetMinimumEverFreeBytes ==
    Query("getMinimumEverFreeBytes", MinEverFreeFrom(zones, activeZones, 0))

GetTotalHeapSize == Query("getTotalHeapSize", TotalHeapFrom(zones, activeZones, 0))

\* getUsedHeapSize of the one caller: no call comes between its two
\* operands, and the difference is a size_t
GetUsedHeapSizeAlone ==
    Query("getUsedHeapSize", SzSub(Sz(TotalHeapFrom(zones, activeZones, 0)),
                                   Sz(FreeHeapFrom(zones, activeZones, 0))))

GetHeapStats ==
    Query("getHeapStats", HeapStatsFrom(zones, activeZones, 0, HeapStatsZero))

\* validateHeap, whether the heap is defined or not
ValidateHeapCall == Query("validateHeap", ValidateHeap(zones, heap, activeZones))

\* bound on the number of resetState calls of the caller
MaxResets == 1

\* the caller has called resetState k times
Life(k) == [op |-> "life", at |-> "run", arg |-> <<k>>]

InitLife ==
    /\ zones = [i \in ZoneIds |-> ZoneZero]
    /\ activeZones = 0
    /\ currentZone = HEAP_ZONE_ANY
    /\ initialized = FALSE
    /\ heap = [b \in Bases |-> {}]
    /\ fault = "none"
    /\ last = [op |-> "start", arg |-> <<>>, zone |-> -1, ret |-> NULL]
    /\ live = {}
    /\ table = QuarantineZero
    /\ added = [blocks |-> <<>>, past |-> 0]
    /\ mpu = MpuFree
    /\ lockOwner = 0
    /\ pc = [t \in Threads |-> IF t = 1 THEN Life(0) ELSE Idle]

Reset ==
    /\ pc[1].arg[1] < MaxResets
    /\ ResetState
    /\ pc' = [pc EXCEPT ![1] = Life(pc[1].arg[1] + 1)]
    /\ UNCHANGED lockOwner

\* the requests of the caller: one page, or a size beyond every zone
LifeSizeInputs == {Sz(100), SIZE_MAX}

AllocLife == (\E size \in LifeSizeInputs : Allocate(size)) /\ UNCHANGED threadVars

CAllocLife == Calloc(Sz(2), Sz(50)) /\ UNCHANGED threadVars

SelectLife == (\E zone \in ThreadZones : SetZone(zone)) /\ UNCHANGED threadVars

Stats ==
    /\ \/ GetFreeHeapSize
       \/ GetMinimumEverFreeBytes
       \/ GetTotalHeapSize
       \/ GetUsedHeapSizeAlone
       \/ GetHeapStats
       \/ ValidateHeapCall
    /\ UNCHANGED threadVars

NextLife ==
    Define \/ AllocLife \/ CAllocLife \/ FreeHeld \/ SelectLife \/ Reset \/ Stats

SpecLife == InitLife /\ [][NextLife]_vars

(* ------------------------- the table's own operations ------------------ *)

\* deactivate() that clears the flag and leaves the count
QuarantineDeactivateFlagOnly(q, entry) ==
    IF entry = 0 \/ q.entries[entry].active = 0
    THEN [q |-> q, ok |-> FALSE]
    ELSE [q |-> [q EXCEPT !.entries[entry].active = 0], ok |-> TRUE]

\* deactivate(entry): entry is a slot of the table, 0 stands for nullptr;
\* ok |-> FALSE when an ALLOC_ASSERT of deactivate fails
QuarantineDeactivate(q, entry) ==
    IF entry = 0 \/ q.entries[entry].active = 0
    THEN [q |-> q, ok |-> FALSE]
    ELSE [q |-> [q EXCEPT !.entries[entry].active = 0, !.activeCount = @ - 1],
          ok |-> TRUE]

\* table.init() at any time
TableInit ==
    /\ fault = "none"
    /\ table' = QuarantineInitOf(Capacity(table))
    /\ added' = [blocks |-> <<>>, past |-> 0]
    /\ last' = [op |-> "init", arg |-> <<>>, zone |-> -1, ret |-> NULL]
    /\ UNCHANGED <<zones, activeZones, currentZone, initialized, heap, live, fault, mpu>>
    /\ UNCHANGED threadVars

\* table.deactivate(entry) for every entry of the table and for nullptr
TableDeactivate ==
    \E entry \in 0..Capacity(table) :
        /\ fault = "none"
        /\ \E r \in {QuarantineDeactivate(table, entry)} :
              /\ table' = r.q
              /\ fault' = IF r.ok THEN "none" ELSE "assert"
        /\ last' = [op |-> "deactivate", arg |-> <<entry>>, zone |-> -1,
                    ret |-> NULL]
        /\ UNCHANGED <<zones, activeZones, currentZone, initialized, heap, live, added, mpu>>
        /\ UNCHANGED threadVars

\* add() of the lowest page that is not in the quarantine
AddLowest ==
    \E p \in PageInputs :
        /\ \A s \in ActiveSlots(table) : table.entries[s].startPage # p
        /\ \A o \in 0..(p - 1) :
              \E s \in ActiveSlots(table) : table.entries[s].startPage = o
        /\ TableAdd(p)
        /\ UNCHANGED threadVars

NextTable == TableInit \/ AddLowest \/ TableDeactivate

SpecTable == InitQuarantine /\ [][NextTable]_vars

(* ------------------------- pointers the allocator never returned ------- *)

(* Two zones, and a caller that also passes to deallocate addresses outside
   every zone and addresses inside a payload it holds, where it has written
   bytes that read as a block header and footer. *)

\* zoneIndex, startPage and pageCount of the record the caller writes into
\* a payload of the zone z: another zone's index, a block that ends one page
\* beyond the zone, the largest page numbers
ForgedKinds == {"zone", "pages", "wide"}

ForgedFields(z, kind) ==
    CASE kind = "zone" ->
            [zoneIndex |-> z.zoneIndex + 1, startPage |-> 0, pageCount |-> 1]
      [] kind = "pages" ->
            [zoneIndex |-> z.zoneIndex, startPage |-> z.totalPages - 1,
             pageCount |-> 2]
      [] kind = "wide" ->
            [zoneIndex |-> z.zoneIndex, startPage |-> Pow16 - 1,
             pageCount |-> Pow16 - 1]

\* a header (or footer) of a block of 0 bytes with these fields; its
\* checksum fits
ForgedRecord(magic, f) ==
    GuardRecord(magic, U32(0), f.startPage, f.pageCount, f.zoneIndex, U32(0))

\* the caller writes, at the start of the payload of a block it holds, a
\* header and behind it the footer that goes with it
Forge ==
    \E b \in live, kind \in ForgedKinds :
        /\ fault = "none"
        /\ Intact(b)
        /\ U32ToNat(ReadRecord(Mem(heap, zones[b.zone]),
                               HeaderOffsetOf(b)).requestedSize)
              >= ALLOC_HEADER_SIZE + ALLOC_FOOTER_SIZE
        /\ ReadRecord(Mem(heap, zones[b.zone]),
                      HeaderOffsetOf(b) + ALLOC_HEADER_SIZE) = BlankRecord
        /\ \E f \in {ForgedFields(zones[b.zone], kind)} :
              heap' = [heap EXCEPT ![zones[b.zone].baseAddress] =
                  WriteRecord(
                      WriteRecord(@, HeaderOffsetOf(b) + ALLOC_HEADER_SIZE,
                                  ForgedRecord(ALLOC_PATTERN_HEADER_MAGIC, f)),
                      HeaderOffsetOf(b) + 2 * ALLOC_HEADER_SIZE,
                      ForgedRecord(ALLOC_PATTERN_FOOTER_MAGIC, f))]
        /\ last' = [op |-> "write", arg |-> <<b.ptr, kind>>, zone |-> b.zone,
                    ret |-> NULL]
        /\ UNCHANGED <<zones, activeZones, currentZone, initialized, fault,
                       live, tableVars, threadVars>>

\* addresses no zone of RegionInputs owns: near 0, inside the first header
\* of region 1, in the tail of region 1 behind its last page, and the end of
\* region 2
OutsidePointers ==
    {8, RegionBase[1] + 16, RegionBase[1] + ALLOC_PAGE_SIZE + 50,
     RegionBase[2] + 2 * ALLOC_PAGE_SIZE}

\* deallocate of an address outside every zone, or of the address behind the
\* first 32 payload bytes of a block held
FreeWild ==
    /\ \E ptr \in OutsidePointers \cup {b.ptr + ALLOC_HEADER_SIZE : b \in live} :
          Deallocate(ptr)
    /\ UNCHANGED threadVars

AllocPage == Allocate(Sz(100)) /\ UNCHANGED threadVars

NextMisuse == Define \/ AllocPage \/ FreeHeld \/ Forge \/ FreeWild

SpecMisuse == Init /\ [][NextMisuse]_vars

(* ------------------------- MpuGuard and updateMpuProtection ------------ *)

\* An MpuGuard as the allocator sees it: what available() returns and what
\* protect() returns.

\* a guard that is available and grants the first region of the allocator
MpuGuardGranting == [available |-> TRUE, protect |-> ALLOC_MPU_FIRST_REGION]

\* MpuGuardStub.cpp: protect returns -1, unprotect does nothing, available
\* returns false
MpuGuardStub == [available |-> FALSE, protect |-> -1]

\* the loop of floorPow2
RECURSIVE FloorPow2From(_, _)
FloorPow2From(result, value) ==
    IF result * 2 <= value THEN FloorPow2From(result * 2, value) ELSE result

FloorPow2(value) == IF value = 0 THEN 0 ELSE FloorPow2From(1, value)

\* value > 0 && (value & (value - 1)) == 0
IsPow2(value) == value > 0 /\ FloorPow2(value) = value

\* addr & ~(alignment - 1), alignment a power of two
AlignDown(addr, alignment) == addr - (addr % alignment)

PageAddress(z, pageIdx) == z.baseAddress + pageIdx * ALLOC_PAGE_SIZE

\* while (regionStart > 0 && !bitmapAllocated.test(regionStart - 1)) --regionStart
RECURSIVE RegionStartFrom(_, _)
RegionStartFrom(z, regionStart) ==
    IF regionStart > 0 /\ ~BitmapTest(z.bitmapAllocated, regionStart - 1)
    THEN RegionStartFrom(z, regionStart - 1)
    ELSE regionStart

\* while (regionEnd < totalPages && !bitmapAllocated.test(regionEnd)) ++regionEnd
RECURSIVE RegionEndFrom(_, _)
RegionEndFrom(z, regionEnd) ==
    IF regionEnd < z.totalPages /\ ~BitmapTest(z.bitmapAllocated, regionEnd)
    THEN RegionEndFrom(z, regionEnd + 1)
    ELSE regionEnd

\* the run of pages around the block: [start, end)
MpuRegion(z, startPage, pageCount) ==
    [start |-> RegionStartFrom(z, startPage),
     end   |-> RegionEndFrom(z, (startPage + pageCount) % Pow16)]

\* the loop that halves protectSize, from the window [addr, addr + size);
\* ok |-> FALSE when alignDown is called with an alignment that is not a
\* power of two
RECURSIVE ShrinkWindow(_, _, _, _, _)
ShrinkWindow(z, r, startPage, addr, size) ==
    IF size > ALLOC_PAGE_SIZE
    THEN IF addr >= PageAddress(z, r.start) /\ addr + size <= PageAddress(z, r.end)
         THEN [addr |-> addr, size |-> size, ok |-> TRUE]
         ELSE IF ~IsPow2(size \div 2)
              THEN [addr |-> addr, size |-> size \div 2, ok |-> FALSE]
              ELSE ShrinkWindow(z, r, startPage,
                                AlignDown(PageAddress(z, startPage), size \div 2),
                                size \div 2)
    ELSE [addr |-> addr, size |-> size, ok |-> TRUE]

\* protectAddr and protectSize as updateMpuProtection passes them to protect
MpuWindow(z, startPage, pageCount) ==
    The({The({IF ~IsPow2(size)
              THEN [addr |-> PageAddress(z, r.start), size |-> size, ok |-> FALSE]
              ELSE ShrinkWindow(z, r, startPage,
                                AlignDown(PageAddress(z, r.start), size), size) :
              size \in {FloorPow2(((r.end - r.start) % Pow16) * ALLOC_PAGE_SIZE)}}) :
         r \in {MpuRegion(z, startPage, pageCount)}})

\* the entry e lies inside the window w
EntryInside(z, e, w) ==
    /\ PageAddress(z, e.startPage) >= w.addr
    /\ PageAddress(z, e.startPage) + e.pageCount * ALLOC_PAGE_SIZE
          <= w.addr + w.size

\* updateMpuProtection(startPage, pageCount) with the guard g:
\*   z |-> the zone afterwards, calls |-> the calls of unprotect and protect
\*   in order, fault |-> "assert" when an ALLOC_ASSERT fails
UpdateMpuProtection(z, startPage, pageCount, g) ==
    IF ~g.available THEN [z |-> z, calls |-> <<>>, fault |-> "none"]
    ELSE
    \* the first loop: entries that hold a region inside the new window
    LET w == MpuWindow(z, startPage, pageCount)
        Held(i) == /\ z.quarantine.entries[i].active # 0
                   /\ z.quarantine.entries[i].mpuRegion >= 0
                   /\ EntryInside(z, z.quarantine.entries[i], w)
        Released(i) == [op |-> "unprotect",
                        arg |-> <<z.quarantine.entries[i].mpuRegion>>]
        slots == [i \in 1..Capacity(z.quarantine) |-> i]
        e1 == [i \in 1..Capacity(z.quarantine) |->
                  IF Held(i)
                  THEN [z.quarantine.entries[i] EXCEPT !.mpuRegion = -1]
                  ELSE z.quarantine.entries[i]]
        \* the second loop, when protect returned a region
        e2 == [i \in 1..Capacity(z.quarantine) |->
                  IF g.protect >= 0 /\ e1[i].active # 0 /\ EntryInside(z, e1[i], w)
                  THEN [e1[i] EXCEPT !.mpuRegion = g.protect]
                  ELSE e1[i]]
        unprotects == [k \in 1..Len(SelectSeq(slots, Held)) |->
                          Released(SelectSeq(slots, Held)[k])]
    IN  IF ~w.ok THEN [z |-> z, calls |-> <<>>, fault |-> "assert"]
        ELSE [z |-> [z EXCEPT !.quarantine.entries = e2],
              calls |-> Append(unprotects,
                               [op |-> "protect", arg |-> <<w.addr, w.size>>]),
              fault |-> "none"]

\* PageAllocator::deallocate built with ALLOC_ENABLE_MPU_PROTECTION = 1 and
\* the guard g: as ZoneDeallocate, with unprotect in evictFromQuarantine for
\* an evicted entry that holds a region and updateMpuProtection(sp, pc)
\* before ++successfulFrees: an assert that fails in updateMpuProtection
\* leaves successfulFrees as it was
ZoneDeallocateMpu(z, m, userPtr, g) ==
    LET hoff == userPtr - z.baseAddress - ALLOC_HEADER_SIZE
        h    == ReadRecord(m, hoff)
        a    == QuarantineAdd(z.quarantine, h.startPage, h.pageCount,
                              h.requestedSize, z.zoneIndex)
        o    == ZoneDeallocate(z, m, userPtr)
        p    == UpdateMpuProtection([o.z EXCEPT !.successfulFrees = z.successfulFrees],
                                    h.startPage, h.pageCount, g)
        u    == [p EXCEPT !.z = IF p.fault = "none"
                                THEN [p.z EXCEPT !.successfulFrees = o.z.successfulFrees]
                                ELSE p.z]
        evictCalls == IF a.didEvict /\ a.evicted.mpuRegion >= 0
                      THEN <<[op |-> "unprotect", arg |-> <<a.evicted.mpuRegion>>]>>
                      ELSE <<>>
    IN  IF ~z.initialized \/ userPtr = NULL \/ o.fault # "none"
        THEN [z |-> o.z, m |-> o.m, fault |-> o.fault, calls |-> <<>>]
        ELSE [z |-> u.z, m |-> o.m, fault |-> u.fault, calls |-> evictCalls \o u.calls]

(* ------------------------- the window of updateMpuProtection ----------- *)

\* MpuGuard of the target: available, protect returns a region or -1
MpuGuardTarget(region) == [available |-> TRUE, protect |-> region]

WindowPages == 5

\* zone base addresses: a multiple of 64 KiB, odd multiples of the page
\* size, and two that are no multiple of the page size
WindowBases ==
    {RegionBase[1], 3 * ALLOC_PAGE_SIZE, 7 * ALLOC_PAGE_SIZE,
     RegionBase[1] + 512, ALLOC_PAGE_SIZE + ALLOC_HEADER_SIZE}

\* the pages of a block
BlockPages(startPage, pageCount) == {startPage + i : i \in 0..(pageCount - 1)}

(* ------------------------- region sizes -------------------------------- *)

(* One region, of every size of InitSizeInputs, then one-page requests. *)

\* Region sizes in bytes: less than a page, one page, five pages, the
\* largest zone allowed, one page more, 65535 pages, 65536 pages (page count
\* 0 in 16 bits), 65541 pages (5 in 16 bits), 2^32 + 100 and the largest
\* size_t.
InitSizeInputs ==
    { Sz(100), PagesBytes(1), PagesBytes(5),
      PagesBytes(ALLOC_MAX_PAGES_PER_ZONE), PagesBytes(ALLOC_MAX_PAGES_PER_ZONE + 1),
      PagesBytes(Pow16 - 1), PagesBytes(Pow16), PagesBytes(Pow16 + 5),
      SzPow32Plus100, SIZE_MAX }

DefineSized ==
    /\ ~initialized
    /\ \E size \in InitSizeInputs :
          DefineHeapRegions(<< [start |-> RegionBase[1], size |-> size] >>)
    /\ UNCHANGED threadVars

NextSized == DefineSized \/ AllocPage \/ FreeHeld

SpecSized == Init /\ [][NextSized]_vars

(* ------------------------- freeing twice ------------------------------- *)

(* One zone of five pages, and a caller that also passes to deallocate the
   pointer of a block it has freed and that is still in the quarantine. *)

\* user pointers of the blocks in the quarantine of zone i
QuarantinedPointers(i) ==
    {zones[i].baseAddress + PageOffset(zones[i].quarantine.entries[s].startPage)
        + ALLOC_HEADER_SIZE : s \in ActiveSlots(zones[i].quarantine)}

\* deallocate of a pointer freed before, the caller making at most MaxAllocs
\* frees that succeed
FreeAgain ==
    /\ \A i \in ZoneIds : zones[i].successfulFrees < MaxAllocs
    /\ \E i \in ZoneIds : \E ptr \in QuarantinedPointers(i) :
          i < activeZones /\ Deallocate(ptr)
    /\ UNCHANGED threadVars

NextDouble == DefineOne \/ AllocGuarded \/ FreeHeld \/ FreeAgain

SpecDouble == Init /\ [][NextDouble]_vars

(* ------------------------- the MPU held by the allocator --------------- *)

(* The allocator built with ALLOC_ENABLE_MPU_PROTECTION = 1 on a target
   whose MpuGuard is available.  MpuGuard hands out the regions of
   MpuRegions: protect returns the lowest region that is free, or -1 when
   all are held, and unprotect releases the region it is given. *)

\* the region MpuGuard::protect returns while held is what the MPU holds
MpuProtect(held) ==
    IF \E r \in MpuRegions : held[r] = NoWindow
    THEN CHOOSE r \in MpuRegions :
            held[r] = NoWindow /\ \A o \in MpuRegions : held[o] = NoWindow => r <= o
    ELSE -1

\* MpuGuard::unprotect(region)
MpuUnprotect(held, region) ==
    IF region \in MpuRegions THEN [held EXCEPT ![region] = NoWindow] ELSE held

\* the calls of unprotect among calls[k..], made in order from held:
\*   held |-> what the MPU holds afterwards, stray |-> some call released a
\*   region that was not held when it was made
RECURSIVE MpuReleaseFrom(_, _, _)
MpuReleaseFrom(held, calls, k) ==
    IF k > Len(calls) THEN [held |-> held, stray |-> FALSE]
    ELSE IF calls[k].op # "unprotect" THEN MpuReleaseFrom(held, calls, k + 1)
    ELSE The({[held |-> n.held,
               stray |-> n.stray \/ calls[k].arg[1] \notin MpuRegions
                            \/ held[calls[k].arg[1]] = NoWindow] :
              n \in {MpuReleaseFrom(MpuUnprotect(held, calls[k].arg[1]),
                                    calls, k + 1)}})

\* startPage and pageCount of the header in front of ptr, as deallocate
\* passes them to updateMpuProtection
FreedBlock(z, m, ptr) ==
    <<ReadRecord(m, ptr - z.baseAddress - ALLOC_HEADER_SIZE).startPage,
      ReadRecord(m, ptr - z.baseAddress - ALLOC_HEADER_SIZE).pageCount>>

\* deallocate called protect
CalledProtect(calls) ==
    Len(calls) > 0 /\ calls[Len(calls)].op = "protect"

\* deallocate(ptr) of a pointer some zone owns: the calls of unprotect do
\* not depend on what protect returns, so they are taken from a run whose
\* protect fails, and protect then returns what MpuGuard has free
DeallocateMpu(ptr) ==
    /\ fault = "none"
    /\ \E i \in {OwnerZone(zones, activeZones, ptr)} :
          /\ i >= 0
          /\ \E d \in {ZoneDeallocateMpu(zones[i], Mem(heap, zones[i]), ptr,
                                         MpuGuardTarget(-1))} :
             \E rel \in {MpuReleaseFrom(mpu, d.calls, 1)} :
             \E region \in {IF CalledProtect(d.calls)
                            THEN MpuProtect(rel.held) ELSE -1} :
             \E o \in {ZoneDeallocateMpu(zones[i], Mem(heap, zones[i]), ptr,
                                         MpuGuardTarget(region))} :
                /\ zones' = [zones EXCEPT ![i] = o.z]
                /\ heap' = [heap EXCEPT ![zones[i].baseAddress] = o.m]
                /\ fault' = o.fault
                /\ mpu' = IF region >= 0
                          THEN [rel.held EXCEPT ![region] =
                                  [addr |-> o.calls[Len(o.calls)].arg[1],
                                   size |-> o.calls[Len(o.calls)].arg[2]]]
                          ELSE rel.held
                /\ last' = [op |-> "deallocate", arg |-> <<ptr>>, zone |-> i,
                            ret |-> NULL, calls |-> o.calls,
                            region |-> region, stray |-> rel.stray,
                            freed |-> FreedBlock(zones[i], Mem(heap, zones[i]), ptr)]
                /\ live' = IF o.fault = "none"
                           THEN {b \in live : b.ptr # ptr}
                           ELSE live
    /\ UNCHANGED <<activeZones, currentZone, initialized, table, added>>

FreeMpu ==
    /\ \E ptr \in {b.ptr : b \in live} : DeallocateMpu(ptr)
    /\ UNCHANGED threadVars

NextMpu == DefineOne \/ AllocGuarded \/ FreeMpu

SpecMpu == Init /\ [][NextMpu]_vars

(* The same allocator in a zone of WindowPages pages at each base address
   of WindowBases: updateMpuProtection runs in the states that allocate and
   deallocate leave. *)

InitWindow ==
    /\ zones = [i \in ZoneIds |-> ZoneZero]
    /\ activeZones = 0
    /\ currentZone = HEAP_ZONE_ANY
    /\ initialized = FALSE
    /\ heap = [b \in Bases \cup WindowBases |-> {}]
    /\ fault = "none"
    /\ last = [op |-> "start", arg |-> <<>>, zone |-> -1, ret |-> NULL]
    /\ live = {}
    /\ table = QuarantineZero
    /\ added = [blocks |-> <<>>, past |-> 0]
    /\ mpu = MpuFree
    /\ lockOwner = 0
    /\ pc = [t \in Threads |-> Idle]

\* the platform defines one region at one of the base addresses
DefineWindow ==
    /\ ~initialized
    /\ \E base \in WindowBases :
          DefineHeapRegions(<< [start |-> base, size |-> PagesBytes(WindowPages)] >>)
    /\ UNCHANGED threadVars

NextWindow == DefineWindow \/ AllocGuarded \/ FreeMpu

SpecWindow == InitWindow /\ [][NextWindow]_vars

(* ------------------------- properties ---------------------------------- *)

ActiveZoneIds == {i \in ZoneIds : i < activeZones}

\* pages [startPage, startPage + pageCount)
PageRange(startPage, pageCount) == startPage .. (startPage + pageCount - 1)

\* The blocks a zone accounts for: those the caller holds and the active
\* quarantine entries, each with its page range.
HeldItems(i) ==
    {[kind |-> "live", id |-> b.ptr, pages |-> PageRange(b.startPage, b.pageCount)]
        : b \in {x \in live : x.zone = i}}

QuarantinedItems(i) ==
    {[kind |-> "quarantine", id |-> s,
      pages |-> PageRange(zones[i].quarantine.entries[s].startPage,
                          zones[i].quarantine.entries[s].pageCount)]
        : s \in ActiveSlots(zones[i].quarantine)}

\* The program is running: no operation has aborted it.
Running == fault = "none"

\* C1: in every state reached by allocate, calloc and deallocate of a caller
\* that frees only blocks it holds, the page ranges of the live blocks and
\* of the active quarantine entries of a zone are non-empty and pairwise
\* disjoint.
C1_PairwiseDisjoint ==
    Running =>
    \A i \in ActiveZoneIds :
        \A a, b \in HeldItems(i) \cup QuarantinedItems(i) :
            /\ a.pages # {}
            /\ a # b => a.pages \cap b.pages = {}

\* a block lives on page 0 again after three frees filled the quarantine
\* and evicted the first block that lay there
C1_Witness ==
    /\ fault = "none"
    /\ activeZones = 1
    /\ zones[0].successfulFrees > ALLOC_QUARANTINE_CAPACITY
    /\ IsFull(zones[0].quarantine)
    /\ \E b \in live : b.startPage = 0

\* C9: after every public operation that returns, in every zone, every page
\* marked in bitmapAllocated is marked in bitmapInUse.
C9_AllocatedSubsetInUse ==
    Running =>
    \A i \in ZoneIds : zones[i].bitmapAllocated.bits \subseteq zones[i].bitmapInUse.bits

\* pages in use but not allocated (quarantined) next to allocated pages,
\* after an eviction
C9_Witness ==
    /\ fault = "none"
    /\ zones[0].successfulFrees > ALLOC_QUARANTINE_CAPACITY
    /\ zones[0].bitmapAllocated.bits # {}
    /\ zones[0].bitmapAllocated.bits # zones[0].bitmapInUse.bits

\* C10: after every public operation that returns, in every initialized
\* zone, freePagesCount equals the number of pages of the zone minus the
\* number of bits set in bitmapInUse.
C10_FreePagesCount ==
    Running =>
    \A i \in ZoneIds :
        zones[i].initialized =>
            zones[i].freePagesCount
                = zones[i].totalPages - CountSet(zones[i].bitmapInUse)

\* the count after allocations of one and two pages and an eviction
C10_Witness ==
    /\ fault = "none"
    /\ zones[0].successfulFrees > ALLOC_QUARANTINE_CAPACITY
    /\ zones[0].freePagesCount = 1
    /\ \E b \in live : b.pageCount = 2

(* first-fit and the page count *)

\* ceil((H + s + F) / P) over the integers, for a size s that is not beyond
\* every zone
TooBig(s) ==
    \/ ~SzFitsInt(s)
    \/ SzToNat(s) > ALLOC_MAX_PAGES_PER_ZONE * ALLOC_PAGE_SIZE

CeilPages(s) ==
    (ALLOC_HEADER_SIZE + SzToNat(s) + ALLOC_FOOTER_SIZE + ALLOC_PAGE_SIZE - 1)
        \div ALLOC_PAGE_SIZE

\* pages [i, i + K) exist in the zone and are all clear in inUse
RunClearAt(z, s, i) ==
    /\ ~TooBig(s)
    /\ i + CeilPages(s) <= z.totalPages
    /\ \A p \in PageRange(i, CeilPages(s)) : ~BitmapTest(z.bitmapInUse, p)

RunStarts(z, s) == {i \in 0..(z.totalPages - 1) : RunClearAt(z, s, i)}

Lowest(S) == CHOOSE i \in S : \A j \in S : i <= j

\* the step is allocate(s) with s > 0 on the initialized zone 0
AllocateStep ==
    /\ last'.op = "allocate"
    /\ zones[0].initialized
    /\ activeZones = 1
    /\ ~SzIsZero(last'.arg[1])

\* C2: first-fit.  allocate(s), s > 0, on an initialized zone returns
\* baseAddress + i*P + H for the lowest i such that pages [i, i+K) are clear
\* in inUse, K = ceil((H+s+F)/P), and marks those pages; it returns NULL
\* exactly when there is no such i.
C2_FirstFit ==
    [][AllocateStep =>
        LET s == last'.arg[1]
            starts == RunStarts(zones[0], s)
        IN  IF starts = {}
            THEN last'.ret = NULL /\ fault' = "none"
            ELSE /\ last'.ret = zones[0].baseAddress
                                  + Lowest(starts) * ALLOC_PAGE_SIZE
                                  + ALLOC_HEADER_SIZE
                 /\ PageRange(Lowest(starts), CeilPages(s))
                        \subseteq zones'[0].bitmapInUse.bits
                 /\ PageRange(Lowest(starts), CeilPages(s))
                        \subseteq zones'[0].bitmapAllocated.bits]_vars

\* C8: for every size s, allocate returns NULL when ceil((H+s+F)/P) exceeds
\* the free page count, and every block it returns has
\* H + s + F <= pageCount * P and startPage + pageCount <= N.
C8_PageCount ==
    [][AllocateStep =>
        LET s == last'.arg[1]
            z == zones[0]
        IN  /\ (TooBig(s) \/ CeilPages(s) > z.freePagesCount)
                  => (last'.ret = NULL /\ fault' = "none")
            /\ last'.ret # NULL =>
                  \E b \in live' \ live :
                      /\ b.ptr = last'.ret
                      /\ ~TooBig(s)
                      /\ ALLOC_HEADER_SIZE + SzToNat(s) + ALLOC_FOOTER_SIZE
                            <= b.pageCount * ALLOC_PAGE_SIZE
                      /\ b.startPage + b.pageCount <= z.totalPages]_vars

(* quarantine *)

\* pages of the active quarantine entries of zone i
QuarantinedPages(i) == UNION {e.pages : e \in QuarantinedItems(i)}

\* the step is a deallocate of a block the caller held, and it returned
FreeStep ==
    /\ last'.op = "deallocate"
    /\ last'.arg[1] # NULL
    /\ fault' = "none"

\* C3: deallocate of a live block leaves its inUse bits set, clears its
\* allocated bits and enters it in the quarantine; the pages of an active
\* quarantine entry stay marked in inUse, and no allocate or calloc returns
\* a block that contains a page of an entry that is active.
C3_QuarantinedNotReused ==
    [][/\ FreeStep =>
            \A b \in live \ live' :
                /\ PageRange(b.startPage, b.pageCount)
                      \subseteq zones'[b.zone].bitmapInUse.bits
                /\ PageRange(b.startPage, b.pageCount)
                      \cap zones'[b.zone].bitmapAllocated.bits = {}
                /\ \E s \in ActiveSlots(zones'[b.zone].quarantine) :
                      /\ zones'[b.zone].quarantine.entries[s].startPage = b.startPage
                      /\ zones'[b.zone].quarantine.entries[s].pageCount = b.pageCount
       /\ \A b \in live' \ live :
            PageRange(b.startPage, b.pageCount) \cap QuarantinedPages(b.zone) = {}
       /\ fault' = "none" =>
            \A i \in ZoneIds :
                \A s \in ActiveSlots(zones'[i].quarantine) :
                    PageRange(zones'[i].quarantine.entries[s].startPage,
                              zones'[i].quarantine.entries[s].pageCount)
                        \subseteq zones'[i].bitmapInUse.bits]_vars

\* allocate, asked for two pages, passed the free page 0 and the
\* quarantined pages 1 and 2 and placed the block on pages 3 and 4
C3_Witness ==
    /\ fault = "none"
    /\ last.op = "allocate"
    /\ last.ret = zones[0].baseAddress + 3 * ALLOC_PAGE_SIZE + ALLOC_HEADER_SIZE
    /\ ~BitmapTest(zones[0].bitmapInUse, 0)
    /\ QuarantinedPages(0) = {1, 2}
    /\ zones[0].bitmapAllocated.bits = {3, 4}

ActiveSeqs(q) == {q.entries[s].freeSequence : s \in ActiveSlots(q)}

EntryWithSeq(q, seq) ==
    q.entries[CHOOSE s \in ActiveSlots(q) : q.entries[s].freeSequence = seq]

\* C4: a deallocate that finds the quarantine full evicts exactly one entry,
\* the active entry with the smallest freeSequence, and frees its pages; a
\* deallocate that finds it not full evicts nothing.
C4_EvictsOldest ==
    [][FreeStep =>
        LET i    == last'.zone
            q    == zones[i].quarantine
            gone == ActiveSeqs(q) \ ActiveSeqs(zones'[i].quarantine)
        IN  IF IsFull(q)
            THEN /\ Cardinality(gone) = 1
                 /\ \A seq \in gone :
                        /\ \A other \in ActiveSeqs(q) :
                              seq = other \/ U32Lt(seq, other)
                        /\ PageRange(EntryWithSeq(q, seq).startPage,
                                     EntryWithSeq(q, seq).pageCount)
                              \cap zones'[i].bitmapInUse.bits = {}
                        /\ zones'[i].freePagesCount
                              = zones[i].freePagesCount
                                  + EntryWithSeq(q, seq).pageCount
            ELSE /\ gone = {}
                 /\ zones'[i].freePagesCount = zones[i].freePagesCount
                 /\ zones'[i].bitmapInUse = zones[i].bitmapInUse]_vars

\* the fourth free: the quarantine was full, the oldest entry sat in the
\* second slot
C4_Witness ==
    /\ fault = "none"
    /\ last.op = "deallocate"
    /\ last.arg[1] # NULL
    /\ zones[0].successfulFrees = ALLOC_QUARANTINE_CAPACITY + 2

\* C7: an allocate or calloc that returns NULL leaves every zone as it was:
\* bitmaps, quarantine, freePagesCount, minEverFreePages, sequenceCounter,
\* successfulAllocs, successfulFrees, and the bytes of the zone.
C7_NullLeavesState ==
    [][(/\ last'.op \in {"allocate", "calloc"}
        /\ last'.ret = NULL
        /\ fault' = "none")
          => (zones' = zones /\ heap' = heap)]_vars

\* allocate of two pages returned NULL with three pages free, no two of
\* them adjacent
C7_Witness ==
    /\ fault = "none"
    /\ last.op = "allocate"
    /\ last.arg[1] = Sz(2 * ALLOC_PAGE_SIZE - ALLOC_HEADER_SIZE - ALLOC_FOOTER_SIZE)
    /\ last.ret = NULL
    /\ zones[0].freePagesCount >= 2
    /\ zones[0].sequenceCounter = U32(4)

(* zone selection *)

\* C6: while the current zone is FAST, allocate returns memory of zone 0 or
\* NULL, and while it is SLOW, memory of zone 1 or NULL.
C6_StrictZone ==
    [][(/\ last'.op = "allocate"
        /\ currentZone \in {HEAP_ZONE_FAST, HEAP_ZONE_SLOW}
        /\ last'.ret # NULL)
          => LET sel == IF currentZone = HEAP_ZONE_FAST THEN 0 ELSE 1
             IN  /\ last'.zone = sel
                 /\ OwnsPointer(zones'[sel], last'.ret)]_vars

(* the order of eviction *)

RecentBlocks(k) ==
    {added.blocks[j] : j \in (Len(added.blocks) - k + 1)..Len(added.blocks)}

ActiveBlocks == {table.entries[s].startPage : s \in ActiveSlots(table)}

\* the active entries are the min(Q, k) blocks added last
ActiveAreRecent ==
    LET k == Min(ALLOC_QUARANTINE_CAPACITY, Len(added.blocks))
    IN  /\ table.activeCount = k
        /\ Cardinality(ActiveSlots(table)) = k
        /\ ActiveBlocks = RecentBlocks(k)

\* C5 as stated: after k adds the active quarantine entries are the
\* min(Q, k) most recently freed blocks, also when nextSequence wraps.
C5_Fifo == Running => ActiveAreRecent

\* the blocks of the Q - 1 adds numbered UINT32_MAX - Q + 2 .. UINT32_MAX
LastBeforeWrap ==
    LET w == Len(added.blocks) - added.past + 1
    IN  {added.blocks[j] : j \in (w - ALLOC_QUARANTINE_CAPACITY + 2)..w}

\* the active entries are the Q - 1 blocks added last before the wrap and
\* the block added last
ActiveAreStuck ==
    /\ table.activeCount = ALLOC_QUARANTINE_CAPACITY
    /\ Cardinality(ActiveSlots(table)) = ALLOC_QUARANTINE_CAPACITY
    /\ ActiveBlocks = LastBeforeWrap \cup {added.blocks[Len(added.blocks)]}

\* C5, amended: after k adds the active quarantine entries are the
\* min(Q, k) most recently freed blocks up to and including the add that
\* is numbered 0 (k <= 2^32); from the add numbered 1 on every add evicts
\* the block added just before it, and the Q - 1 blocks added last before
\* the wrap stay.
C5_FifoUntilWrap ==
    Running => IF added.past <= 2 THEN ActiveAreRecent ELSE ActiveAreStuck

\* the add numbered 1 has evicted the block of the add numbered 0, the
\* entry numbered UINT32_MAX stays
C5_Witness ==
    /\ fault = "none"
    /\ added.past = 3
    /\ IsFull(table)
    /\ \E s, u \in ActiveSlots(table) :
          /\ table.entries[s].freeSequence = UINT32_MAX
          /\ table.entries[u].freeSequence = U32(1)
          /\ table.entries[u].startPage = added.blocks[Len(added.blocks)]
    /\ added.blocks[Len(added.blocks) - 1] \notin ActiveBlocks


(* accounting *)

\* the number of pages of a set of items, each counted with its page range
RECURSIVE PagesOf(_)
PagesOf(items) ==
    IF items = {} THEN 0
    ELSE LET x == CHOOSE y \in items : TRUE
         IN  Cardinality(x.pages) + PagesOf(items \ {x})

\* C11: after any sequence of allocate, calloc and deallocate from init that
\* returns, in every active zone the page counts of the live blocks add up
\* to totalPages - freePagesCount - quarantinedPages, quarantinedPages being
\* the sum of pageCount over the active quarantine entries.
C11_Accounting ==
    Running =>
    \A i \in ActiveZoneIds :
        PagesOf(HeldItems(i))
            = zones[i].totalPages - zones[i].freePagesCount
                - PagesOf(QuarantinedItems(i))

\* a two-page block is live next to a full quarantine, after an eviction
\* gave a page back
C11_Witness ==
    /\ fault = "none"
    /\ activeZones = 1
    /\ zones[0].successfulFrees > ALLOC_QUARANTINE_CAPACITY
    /\ PagesOf(QuarantinedItems(0)) = ALLOC_QUARANTINE_CAPACITY
    /\ PagesOf(HeldItems(0)) = 2
    /\ zones[0].freePagesCount = 1


(* block guards *)

\* the header of the block b the caller holds, and the footer it leads to
HeaderOfBlock(b) ==
    ReadRecord(Mem(heap, zones[b.zone]),
               b.ptr - zones[b.zone].baseAddress - ALLOC_HEADER_SIZE)

FooterOfBlock(b) ==
    FooterOf(Mem(heap, zones[b.zone]),
             b.ptr - zones[b.zone].baseAddress - ALLOC_HEADER_SIZE,
             HeaderOfBlock(b))

\* C12: after every public operation that returns, for every live block the
\* header and the footer validate, their mirrored fields agree, the header
\* lies at the start of the page header.startPage names, and the pages
\* [startPage, startPage + pageCount) are all set in inUse and in allocated.
C12_LiveBlocksGuarded ==
    Running =>
    \A b \in live :
        LET z == zones[b.zone]
            h == HeaderOfBlock(b)
            f == FooterOfBlock(b)
        IN  /\ ValidateHeader(h)
            /\ ValidateFooter(f)
            /\ ValidatePair(h, f)
            /\ b.ptr - z.baseAddress - ALLOC_HEADER_SIZE = PageOffset(h.startPage)
            /\ h.zoneIndex = b.zone
            /\ h.pageCount >= 1
            /\ h.startPage + h.pageCount <= z.totalPages
            /\ PageRange(h.startPage, h.pageCount) \subseteq z.bitmapInUse.bits
            /\ PageRange(h.startPage, h.pageCount) \subseteq z.bitmapAllocated.bits

\* calloc has returned a block on the page that an eviction had cleared
C12_Witness ==
    /\ fault = "none"
    /\ last.op = "calloc"
    /\ last.ret = zones[0].baseAddress + ALLOC_HEADER_SIZE
    /\ zones[0].successfulFrees > ALLOC_QUARANTINE_CAPACITY
    /\ \E b \in live : b.ptr = last.ret


\* C13: after every public operation that returns, for every active
\* quarantine entry the header at its startPage validates, the footer
\* validates, the pair matches, the header names the pages of the entry and
\* startPage + pageCount <= N; so verifyQuarantine returns true, also after
\* evictions that cleared pages.
C13_QuarantineGuarded ==
    Running =>
    \A i \in ActiveZoneIds :
        /\ VerifyQuarantine(zones[i], Mem(heap, zones[i]))
        /\ \A s \in ActiveSlots(zones[i].quarantine) :
            LET e == zones[i].quarantine.entries[s]
                h == ReadRecord(Mem(heap, zones[i]), PageOffset(e.startPage))
                f == FooterOf(Mem(heap, zones[i]), PageOffset(e.startPage), h)
            IN  /\ ValidateHeader(h)
                /\ ValidateFooter(f)
                /\ ValidatePair(h, f)
                /\ h.startPage = e.startPage
                /\ h.pageCount = e.pageCount
                /\ h.requestedSize = e.requestedSize
                /\ e.startPage + e.pageCount <= zones[i].totalPages

\* the quarantine is full after a free that evicted an entry and cleared
\* the page next to the pages of the entries that stay
C13_Witness ==
    /\ fault = "none"
    /\ last.op = "deallocate"
    /\ zones[0].successfulFrees > ALLOC_QUARANTINE_CAPACITY
    /\ IsFull(zones[0].quarantine)
    /\ ~BitmapTest(zones[0].bitmapInUse, 0)
    /\ QuarantinedPages(0) = {1, 2}


(* mutual exclusion *)

\* the thread is at statements that read or write zones_, activeZones_,
\* currentZone_ or initialized_
InAllocatorState(t) ==
    pc[t].at \in {"route", "primary", "secondary", "remaining", "find", "set",
                  "zones", "count", "current", "flag", "sum", "first",
                  "second", "loop", "index", "argument", "init", "load",
                  "store", "assert", "end"}

\* C14: every public operation accesses the allocator state only while its
\* thread holds the process-wide lock, so no two threads are inside the
\* allocator state at once.
C14_MutualExclusion ==
    /\ \A t \in Threads : InAllocatorState(t) => lockOwner = t
    /\ \A t, u \in Threads :
          (InAllocatorState(t) /\ InAllocatorState(u)) => t = u

\* the thread is at a statement that reads or writes currentZone_
AtCurrentZone(t) == pc[t].at \in {"route", "set", "current", "read"}

\* C15: no public operation reads or writes currentZone_ unless the calling
\* thread holds the process-wide lock.
C15_CurrentZoneUnderLock ==
    \A t \in Threads : AtCurrentZone(t) => lockOwner = t


(* validateHeap *)

\* the record where the footer of the live block b was written does not
\* validate, or one of its mirrored fields differs from the header
FooterCorrupted(b) ==
    \/ ~ValidateFooter(FooterOfBlock(b))
    \/ ~ValidatePair(HeaderOfBlock(b), FooterOfBlock(b))

\* C16: if the footer of a live block is corrupted (its magic or checksum
\* made invalid, or a mirrored field made to differ from the header),
\* validateHeap returns false.
C16_FooterDamageFound ==
    [][(/\ last'.op = "validateHeap"
        /\ \E b \in live : FooterCorrupted(b))
          => last'.ret = FALSE]_vars

\* validateHeap has returned false for a heap whose only damage is a footer
\* that validates on its own but carries another sequence number than its
\* header, next to an intact live block and a quarantined one
C16_Witness ==
    /\ fault = "none"
    /\ last.op = "validateHeap"
    /\ last.ret = FALSE
    /\ zones[0].successfulFrees >= 1
    /\ \E b, c \in live :
          /\ ValidateFooter(FooterOfBlock(b))
          /\ ~ValidatePair(HeaderOfBlock(b), FooterOfBlock(b))
          /\ ~FooterCorrupted(c)

\* C17: verifyAllocated, and so validateHeap, checks the header of every
\* live block: if the header of a live block fails validation (bad magic or
\* bad checksum), it returns false.
C17_HeaderDamageFound ==
    [][(/\ last'.op = "validateHeap"
        /\ \E b \in live : ~ValidateHeader(HeaderOfBlock(b)))
          => last'.ret = FALSE]_vars


(* routing with fallback *)

\* zone 0 then zone 1, or zone 1 then zone 0 for SLOW_PREFER, then the
\* remaining zones in index order
FallbackOrder(zone) ==
    (IF zone = HEAP_ZONE_SLOW_PREFER THEN <<1, 0>> ELSE <<0, 1>>)
        \o [k \in 1..(ALLOC_MAX_ZONES - 2) |-> k + 1]

\* the zones of the order that are active
ActiveOrder(zone) == SelectSeq(FallbackOrder(zone), LAMBDA i : i < activeZones)

\* what allocate(size) of zone i answers in the current state
ZoneAnswer(i, size) == ZoneAllocate(zones[i], Mem(heap, zones[i]), size)

\* positions of the order whose zone answers non-NULL
Answering(ord, size) ==
    {k \in 1..Len(ord) : ZoneAnswer(ord[k], size).ret # NULL}

\* C18: for ANY and FAST_PREFER the zones are tried in the order zone 0,
\* zone 1, remaining zones by index, for SLOW_PREFER in the order zone 1,
\* zone 0, remaining zones by index; the result is the first non-NULL
\* answer, no zone is tried twice, and NULL is returned only if every active
\* zone returned NULL.
C18_FallbackOrder ==
    [][(/\ last'.op = "allocate"
        /\ currentZone \in {HEAP_ZONE_ANY, HEAP_ZONE_FAST_PREFER,
                            HEAP_ZONE_SLOW_PREFER}
        /\ fault' = "none")
          => LET ord  == ActiveOrder(currentZone)
                 size == last'.arg[1]
                 hits == Answering(ord, size)
             IN  IF hits = {}
                 THEN /\ last'.ret = NULL
                      /\ last'.tried = ord
                 ELSE /\ last'.tried = SubSeq(ord, 1, Lowest(hits))
                      /\ last'.zone = ord[Lowest(hits)]
                      /\ last'.ret = ZoneAnswer(ord[Lowest(hits)], size).ret]_vars

\* under SLOW_PREFER zone 1 had no room and zone 0 gave the block
C18_Witness ==
    /\ fault = "none"
    /\ last.op = "allocate"
    /\ currentZone = HEAP_ZONE_SLOW_PREFER
    /\ activeZones = 2
    /\ last.tried = <<1, 0>>
    /\ last.zone = 0
    /\ last.ret # NULL


(* 33 rounds of allocate and free *)

\* allocate of round k has just returned
AfterAllocate(k) == pc[1] = Round(k, "deallocate")

\* deallocate of round k has just returned
AfterFree(k) == pc[1] = Round(k + 1, "allocate")

\* C19 as stated: in a zone of 16 pages with quarantine capacity 32, in 33
\* rounds of allocate(100) and deallocate every allocation succeeds, the
\* quarantine holds 32 active entries after the 32nd free, the 33rd free
\* evicts the entry with freeSequence 1, and then freeBytes = 15 * P.
C19_SixteenPages ==
    (Running /\ zones[0].totalPages = 16) =>
        /\ \A k \in 1..(DefaultCapacity + 1) :
              AfterAllocate(k) => last.ret # NULL
        /\ AfterFree(DefaultCapacity) =>
              zones[0].quarantine.activeCount = DefaultCapacity
        /\ AfterFree(DefaultCapacity + 1) =>
              /\ U32(1) \notin ActiveSeqs(zones[0].quarantine)
              /\ FreeBytes(zones[0]) = 15 * ALLOC_PAGE_SIZE

\* C19, amended: with quarantine capacity 32, the allocation of round k <= 33
\* succeeds exactly when k <= N.  In a zone of N >= 33 pages the quarantine
\* holds 32 active entries after the 32nd free, the 33rd free evicts the
\* entry with freeSequence 1 and frees its page, and then
\* freeBytes = (N - 32) * P.  In a zone of N <= 32 pages every page is
\* quarantined after the N-th free, freeBytes = 0, and no later allocation
\* succeeds.
C19_Rounds ==
    Running =>
    LET N == zones[0].totalPages
        q == zones[0].quarantine
    IN  /\ \A k \in 1..(DefaultCapacity + 1) :
              AfterAllocate(k) => (last.ret # NULL <=> k <= N)
        /\ (N > DefaultCapacity /\ AfterFree(DefaultCapacity)) =>
              /\ q.activeCount = DefaultCapacity
              /\ Cardinality(ActiveSlots(q)) = DefaultCapacity
        /\ (N > DefaultCapacity /\ AfterFree(DefaultCapacity + 1)) =>
              /\ q.activeCount = DefaultCapacity
              /\ U32(1) \notin ActiveSeqs(q)
              /\ ActiveSeqs(q) = {U32(j) : j \in 2..(DefaultCapacity + 1)}
              /\ ~BitmapTest(zones[0].bitmapInUse, 0)
              /\ FreeBytes(zones[0]) = (N - DefaultCapacity) * ALLOC_PAGE_SIZE
        /\ N <= DefaultCapacity =>
              \A k \in N..MaxRounds :
                  /\ AfterFree(k) =>
                        /\ q.activeCount = N
                        /\ FreeBytes(zones[0]) = 0
                        /\ zones[0].successfulFrees = N
                  /\ (k > N /\ AfterAllocate(k)) => last.ret = NULL

\* the 33rd free has returned in a zone of 33 pages: the entry numbered 1 is
\* gone, one page is free
C19_Witness ==
    /\ fault = "none"
    /\ zones[0].totalPages = 33
    /\ AfterFree(DefaultCapacity + 1)
    /\ zones[0].successfulFrees = DefaultCapacity + 1
    /\ U32(1) \notin ActiveSeqs(zones[0].quarantine)
    /\ FreeBytes(zones[0]) = ALLOC_PAGE_SIZE


(* deallocate(NULL) *)

\* C20: deallocate(NULL) is a no-op at the router and at the zone: no
\* bitmap, quarantine entry, counter (successfulFrees included), byte of
\* memory or currentZone_ changes, and no assertion fires.
C20_FreeNullNoOp ==
    [][(last'.op = "deallocate" /\ last'.arg[1] = NULL)
          => /\ UNCHANGED <<zones, activeZones, currentZone, initialized, heap,
                            live>>
             /\ fault' = "none"
             /\ \A i \in ZoneIds :
                   ZoneDeallocate(zones[i], Mem(heap, zones[i]), NULL)
                       = Outcome(zones[i], Mem(heap, zones[i]), NULL, "none")]_vars

\* deallocate(NULL) has returned with two zones defined, SLOW selected, a
\* live block and a quarantined one
C20_Witness ==
    /\ fault = "none"
    /\ last.op = "deallocate"
    /\ last.arg[1] = NULL
    /\ activeZones = 2
    /\ currentZone = HEAP_ZONE_SLOW
    /\ live # {}
    /\ \E i \in ZoneIds : ActiveSlots(zones[i].quarantine) # {}


(* calloc *)

\* the step is calloc(num, elemSize), served or refused
CallocStep == last'.op = "calloc"

\* C21: calloc(num, elemSize) returns NULL whenever the product num*elemSize
\* does not fit a size_t, and never allocates a block whose payload is
\* smaller than num*elemSize bytes.
C21_CallocOverflow ==
    [][CallocStep =>
        LET num   == last'.arg[1]
            size  == last'.arg[2]
            total == SzMul(num, size)
        IN  /\ (~SzIsZero(num) /\ SzMulOverflows(num, size))
                  => (last'.ret = NULL /\ fault' = "none")
            /\ last'.ret # NULL =>
                  LET z == zones'[last'.zone]
                      h == ReadRecord(Mem(heap', z),
                                      last'.ret - z.baseAddress - ALLOC_HEADER_SIZE)
                  IN  /\ ~TooBig(total)
                      /\ U32ToNat(h.requestedSize) = SzToNat(total)
                      /\ ALLOC_HEADER_SIZE + SzToNat(total) + ALLOC_FOOTER_SIZE
                            <= h.pageCount * ALLOC_PAGE_SIZE]_vars


\* every byte of [lo, hi) holds v
RangeHolds(m, lo, hi, v) ==
    hi <= lo \/ \E o \in m : ~IsRecord(o) /\ o.fill = v /\ o.off <= lo /\ hi <= o.end

\* C22: for every calloc(n, s) that returns a block, all n*s payload bytes of
\* the block are zero, also on pages that held a freed block (filled with
\* 0xCD) before it was evicted, and the header, the footer and the padding of
\* the block are valid, not zeroed.
C22_CallocZeroes ==
    [][(CallocStep /\ last'.ret # NULL) =>
        LET z     == zones'[last'.zone]
            m     == Mem(heap', z)
            hoff  == last'.ret - z.baseAddress - ALLOC_HEADER_SIZE
            h     == ReadRecord(m, hoff)
            f     == FooterOf(m, hoff, h)
            total == SzMul(last'.arg[1], last'.arg[2])
        IN  /\ fault' = "none"
            /\ ~TooBig(total)
            /\ RangeHolds(m, hoff + ALLOC_HEADER_SIZE,
                          hoff + ALLOC_HEADER_SIZE + SzToNat(total), 0)
            /\ ValidateHeader(h)
            /\ ValidateFooter(f)
            /\ ValidatePair(h, f)
            /\ RangeHolds(m, FooterOffset(hoff, h) + ALLOC_FOOTER_SIZE,
                          hoff + h.pageCount * ALLOC_PAGE_SIZE,
                          ALLOC_PATTERN_PADDING)]_vars


(* before defineHeapRegions *)

AllZero ==
    /\ zones = [i \in ZoneIds |-> ZoneZero]
    /\ activeZones = 0
    /\ currentZone = HEAP_ZONE_ANY
    /\ ~initialized

\* C23: before defineHeapRegions (the allocator in the all-zero state, also
\* after resetState) allocate and calloc return NULL, every statistics query
\* (free, minimum ever free, total, used, heap stats) returns zero,
\* validateHeap returns true, and no operation changes the state of a zone.
C23_BeforeDefine ==
    [][/\ (last'.op = "resetState" /\ fault' = "none") => AllZero'
       /\ ~initialized =>
            /\ zones = [i \in ZoneIds |-> ZoneZero]
            /\ activeZones = 0
            /\ last'.op \in {"allocate", "calloc"} =>
                  (last'.ret = NULL /\ fault' = "none")
            /\ last'.op \in {"getFreeHeapSize", "getMinimumEverFreeBytes",
                             "getTotalHeapSize"} =>
                  last'.ret = 0
            /\ last'.op = "getUsedHeapSize" => last'.ret = Sz(0)
            /\ last'.op = "getHeapStats" =>
                  \A field \in DOMAIN last'.ret : last'.ret[field] = 0
            /\ last'.op = "validateHeap" => last'.ret = TRUE
            /\ last'.op # "defineHeapRegions" =>
                  (zones' = zones /\ heap' = heap /\ activeZones' = 0)]_vars

\* allocate has returned NULL after resetState, in front of memory that
\* still holds the guards of the blocks of the heap that was reset
C23_Witness ==
    /\ fault = "none"
    /\ ~initialized
    /\ pc[1] = Life(1)
    /\ last.op = "allocate"
    /\ last.arg[1] = Sz(100)
    /\ last.ret = NULL
    /\ \E b \in Bases : \E o \in heap[b] : IsRecord(o) /\ ValidateHeader(o.rec)


(* resetState, then defineHeapRegions *)

\* the number of pages of a region
FreshPages(r) == SzToNat(r.size) \div ALLOC_PAGE_SIZE

\* zone i as defineHeapRegions leaves it in an allocator that was never used
FreshZone(r, i) ==
    [baseAddress |-> r.start, totalPages |-> FreshPages(r), zoneIndex |-> i,
     initialized |-> TRUE,
     bitmapInUse |-> [bits |-> {}, pageCount |-> FreshPages(r)],
     bitmapAllocated |-> [bits |-> {}, pageCount |-> FreshPages(r)],
     quarantine |-> [entries |-> [s \in Slots |-> ZeroEntry],
                     nextSequence |-> U32(1), activeCount |-> 0],
     sequenceCounter |-> U32(0), freePagesCount |-> FreshPages(r),
     minEverFreePages |-> FreshPages(r), successfulAllocs |-> 0,
     successfulFrees |-> 0]

\* the bytes of the regions, added up from region k on
RECURSIVE FreshBytesFrom(_, _)
FreshBytesFrom(regions, k) ==
    IF k > Len(regions) THEN 0
    ELSE FreshPages(regions[k]) * ALLOC_PAGE_SIZE + FreshBytesFrom(regions, k + 1)

\* C24: from any reachable state, resetState followed by
\* defineHeapRegions(R) leaves the allocator with the observable state of a
\* fresh defineHeapRegions(R): free, minimum-ever-free and total bytes, the
\* counters of successful allocations and frees, the zone count, the current
\* zone ANY, empty quarantines and bitmaps, and the sequence counters.
C24_ResetThenDefine ==
    [][(/\ last'.op = "defineHeapRegions"
        /\ fault' = "none"
        /\ pc[1].op = "life" /\ pc[1].arg[1] >= 1)
          => LET regions == last'.arg
             IN  /\ activeZones' = Len(regions)
                 /\ currentZone' = HEAP_ZONE_ANY
                 /\ initialized'
                 /\ \A i \in ZoneIds :
                       i < Len(regions) => zones'[i] = FreshZone(regions[i + 1], i)
                 /\ FreeHeapFrom(zones', activeZones', 0) = FreshBytesFrom(regions, 1)
                 /\ MinEverFreeFrom(zones', activeZones', 0)
                       = FreshBytesFrom(regions, 1)
                 /\ TotalHeapFrom(zones', activeZones', 0) = FreshBytesFrom(regions, 1)
                 /\ HeapStatsFrom(zones', activeZones', 0, HeapStatsZero)
                       = [xAvailableHeapSpaceInBytes |-> FreshBytesFrom(regions, 1),
                          xMinimumEverFreeBytesRemaining |->
                              FreshBytesFrom(regions, 1),
                          xNumberOfSuccessfulAllocations |-> 0,
                          xNumberOfSuccessfulFrees |-> 0]]_vars

\* the second region alone has been defined after a reset of a heap of two
\* zones: its memory still holds a header that zone 1 wrote
C24_Witness ==
    /\ fault = "none"
    /\ initialized
    /\ pc[1] = Life(1)
    /\ last.op = "defineHeapRegions"
    /\ activeZones = 1
    /\ zones[0].baseAddress = RegionBase[2]
    /\ \E o \in heap[RegionBase[2]] :
          IsRecord(o) /\ ValidateHeader(o.rec) /\ o.rec.zoneIndex = 1


(* the low-water mark *)

\* C25: after every public operation minEverFreePages <= freePagesCount, and
\* minEverFreePages is the smallest value freePagesCount has had since init:
\* init sets both to N, and every operation leaves the smaller of the old
\* mark and the new free count, so that the mark never increases.
C25_MinEverFree ==
    [][\A i \in ZoneIds :
          (zones'[i].initialized /\ fault' = "none") =>
              /\ zones'[i].minEverFreePages <= zones'[i].freePagesCount
              /\ IF zones[i].initialized
                 THEN /\ zones'[i].minEverFreePages
                            = Min(zones[i].minEverFreePages,
                                  zones'[i].freePagesCount)
                      /\ zones'[i].minEverFreePages <= zones[i].minEverFreePages
                 ELSE /\ zones'[i].freePagesCount = zones'[i].totalPages
                      /\ zones'[i].minEverFreePages = zones'[i].totalPages]_vars

\* an eviction has given a page back: the free count is above the mark,
\* which has stayed where three allocations put it
C25_Witness ==
    /\ fault = "none"
    /\ zones[0].successfulFrees > ALLOC_QUARANTINE_CAPACITY
    /\ zones[0].freePagesCount = 3
    /\ zones[0].minEverFreePages = 2
    /\ zones[0].totalPages = 5



\* C26: after init, add (with or without eviction) and deactivate,
\* activeCount is the number of entries whose active flag is set, and it is
\* at most the capacity.
C26_ActiveCount ==
    /\ table.activeCount = Cardinality(ActiveSlots(table))
    /\ table.activeCount <= Capacity(table)

C26_Witness ==
    /\ fault = "none"
    /\ last.op = "deactivate"
    /\ Len(added.blocks) > ALLOC_QUARANTINE_CAPACITY
    /\ table.activeCount = ALLOC_QUARANTINE_CAPACITY - 1



\* a deallocate of a non-NULL pointer takes place
WildStep ==
    /\ last'.op = "deallocate"
    /\ last'.arg[1] # NULL
    /\ fault = "none"
    /\ (last' # last \/ fault' # fault)

\* the 32 bytes in front of ptr, read as a header in the zone i
HeaderBefore(i, ptr) ==
    ReadRecord(Mem(heap, zones[i]), ptr - zones[i].baseAddress - ALLOC_HEADER_SIZE)

\* C27: deallocate of a non-NULL pointer that no active zone owns, or whose
\* header carries a zone index other than the owning zone's, or whose header
\* describes a block with startPage + pageCount > N, ends in the fatal
\* assertion and leaves every zone (bitmaps, quarantine, counters) as it was.
C27_WildFree ==
    [][WildStep =>
        \A i \in {OwnerZone(zones, activeZones, last'.arg[1])} :
            (\/ i < 0
             \/ /\ i >= 0
                /\ \/ HeaderBefore(i, last'.arg[1]).zoneIndex # zones[i].zoneIndex
                   \/ HeaderBefore(i, last'.arg[1]).startPage
                        + HeaderBefore(i, last'.arg[1]).pageCount
                          > zones[i].totalPages)
            => /\ fault' = "assert"
               /\ zones' = zones]_vars

\* deallocate of a written header that names another zone has been stopped,
\* the owning zone holding a quarantined block
C27_Witness ==
    /\ fault = "assert"
    /\ last.op = "deallocate"
    /\ last.zone = 1
    /\ ValidateHeader(HeaderBefore(1, last.arg[1]))
    /\ HeaderBefore(1, last.arg[1]).zoneIndex = 2
    /\ zones[1].quarantine.activeCount = 1
    /\ zones[1].successfulFrees = 1



\* C28: with the stub guard (available() false, protect -1) a deallocate
\* built with MPU protection leaves the zone, its memory and the outcome
\* exactly as the build without protection does, calls neither unprotect nor
\* protect, and no active quarantine entry holds an MPU region; allocate and
\* calloc are the same code in both builds.
C28_StubIsNoProtection ==
    [][(last'.op = "deallocate" /\ last'.zone >= 0 /\ fault = "none") =>
        \A i \in {last'.zone} :
            \E r \in {ZoneDeallocateMpu(zones[i], Mem(heap, zones[i]),
                                        last'.arg[1], MpuGuardStub)} :
                \/ (last' = last /\ zones' = zones /\ heap' = heap)
                \/ /\ r.z = zones'[i]
                   /\ r.m = Mem(heap', zones'[i])
                   /\ r.fault = fault'
                   /\ r.calls = <<>>
                   /\ \A s \in ActiveSlots(r.z.quarantine) :
                         r.z.quarantine.entries[s].mpuRegion < 0]_vars

\* a deallocate that evicted an entry has returned, the quarantine full
C28_Witness ==
    /\ fault = "none"
    /\ last.op = "deallocate"
    /\ last.zone = 0
    /\ zones[0].successfulFrees = ALLOC_QUARANTINE_CAPACITY + 1
    /\ zones[0].quarantine.activeCount = ALLOC_QUARANTINE_CAPACITY
    /\ \A s \in ActiveSlots(zones[0].quarantine) :
          zones[0].quarantine.entries[s].mpuRegion = -1



\* first and one-past-last page of the run of non-allocated pages of zone 0
\* around the block [sp, sp + n)
RunStart(sp) ==
    CHOOSE s \in 0..sp :
        /\ \A p \in s..(sp - 1) : ~BitmapTest(zones[0].bitmapAllocated, p)
        /\ s = 0 \/ BitmapTest(zones[0].bitmapAllocated, s - 1)
RunEnd(sp, n) ==
    CHOOSE e \in (sp + n)..zones[0].totalPages :
        /\ \A p \in (sp + n)..(e - 1) : ~BitmapTest(zones[0].bitmapAllocated, p)
        /\ e = zones[0].totalPages \/ BitmapTest(zones[0].bitmapAllocated, e)

\* the protect call of the deallocate that has just returned
ProtectCall == last.calls[Len(last.calls)]

\* C29: the window [protectAddr, protectAddr + protectSize) that
\* updateMpuProtection passes to protect is of a power-of-two size, aligned
\* to its size, and lies inside the run of non-allocated pages around the
\* block just quarantined, for every base address and every bitmap state.
C29_WindowInsideRun ==
    (last.op = "deallocate" /\ fault = "none") =>
        /\ ProtectCall.op = "protect"
        /\ \E k \in 0..20 : ProtectCall.arg[2] = 2 ^ k
        /\ ProtectCall.arg[1] % ProtectCall.arg[2] = 0
        /\ ProtectCall.arg[1]
              >= zones[0].baseAddress + RunStart(last.freed[1]) * ALLOC_PAGE_SIZE
        /\ ProtectCall.arg[1] + ProtectCall.arg[2]
              <= zones[0].baseAddress
                    + RunEnd(last.freed[1], last.freed[2]) * ALLOC_PAGE_SIZE



\* the active entries of the table carry pairwise different sequence
\* numbers, none of them 0
SequencesDistinct ==
    /\ \A s, u \in ActiveSlots(table) :
          table.entries[s].freeSequence = table.entries[u].freeSequence => s = u
    /\ \A s \in ActiveSlots(table) : table.entries[s].freeSequence # U32(0)

\* the first insertion since init() is numbered 1
FirstIsOne ==
    (Len(added.blocks) = 1 /\ ActiveSlots(table) # {}) =>
        \A s \in ActiveSlots(table) : table.entries[s].freeSequence = U32(1)

\* C30 as stated: no two active quarantine entries share a freeSequence and
\* every active entry has freeSequence >= 1, the first insertion getting 1,
\* after any number of insertions, also when nextSequence wraps.
C30_Sequences == Running => (SequencesDistinct /\ FirstIsOne)

\* the entry of the block added last is numbered 0
LastIsZero ==
    \E s \in ActiveSlots(table) :
        /\ table.entries[s].startPage = added.blocks[Len(added.blocks)]
        /\ table.entries[s].freeSequence = U32(0)

\* C30, amended: the same up to and including the add numbered UINT32_MAX
\* (at most 2^32 - 1 insertions); the add after it is numbered 0.
C30_SequencesUntilWrap ==
    Running => /\ added.past <= 1 => (SequencesDistinct /\ FirstIsOne)
               /\ added.past = 2 => LastIsZero

\* the table after 2^32 - 1 insertions: full, its newest entry numbered
\* UINT32_MAX, nextSequence wrapped to 0
C30_Witness ==
    /\ fault = "none"
    /\ added.past = 1
    /\ table.nextSequence = U32(0)
    /\ IsFull(table)
    /\ \E s \in ActiveSlots(table) :
          /\ table.entries[s].startPage = added.blocks[Len(added.blocks)]
          /\ table.entries[s].freeSequence = UINT32_MAX



\* defineHeapRegions runs init on one region
InitStep ==
    /\ last'.op = "defineHeapRegions"
    /\ Len(last'.arg) = 1
    /\ ~initialized
    /\ fault = "none"

\* size / P is above the largest page count of a zone
TooManyPages(size) ==
    \/ ~SzFitsInt(SzDiv(size, ALLOC_PAGE_SIZE))
    \/ SzToNat(SzDiv(size, ALLOC_PAGE_SIZE)) > ALLOC_MAX_PAGES_PER_ZONE

\* C31: init(start, size, zoneIndex) ends in the fatal assertion whenever
\* size / P exceeds ALLOC_MAX_PAGES_PER_ZONE, for every size; for any other
\* size of at least a page, totalPages = floor(size / P), freePagesCount =
\* minEverFreePages = totalPages, both bitmaps are empty and so is the
\* quarantine.
C31_InitBounds ==
    [][InitStep =>
        \A size \in {last'.arg[1].size} :
            IF TooManyPages(size) THEN fault' = "assert"
            ELSE ~SzIsZero(SzDiv(size, ALLOC_PAGE_SIZE)) =>
                    /\ fault' = "none"
                    /\ zones'[0].initialized
                    /\ zones'[0].totalPages = SzToNat(SzDiv(size, ALLOC_PAGE_SIZE))
                    /\ zones'[0].freePagesCount = zones'[0].totalPages
                    /\ zones'[0].minEverFreePages = zones'[0].totalPages
                    /\ zones'[0].bitmapInUse.bits = {}
                    /\ zones'[0].bitmapAllocated.bits = {}
                    /\ zones'[0].quarantine.activeCount = 0
                    /\ ActiveSlots(zones'[0].quarantine) = {}]_vars



\* a deallocate of a pointer whose block is in the quarantine of zone 0
\* takes place
DoubleFreeStep ==
    /\ last'.op = "deallocate"
    /\ fault = "none"
    /\ zones[0].initialized
    /\ last'.arg[1] \in QuarantinedPointers(0)
    /\ (zones' # zones \/ fault' # fault)

\* active entries of the quarantine q that start at startPage
EntriesAt(q, startPage) ==
    {s \in ActiveSlots(q) : q.entries[s].startPage = startPage}

\* C32: deallocate of a pointer whose block is already in the quarantine
\* ends in the fatal assertion at that call, creates no second active entry
\* for the same pages and does not increment successfulFrees.
C32_DoubleFreeRejected ==
    [][DoubleFreeStep =>
        /\ fault' = "assert"
        /\ zones'[0].successfulFrees = zones[0].successfulFrees
        /\ \A p \in 0..(zones[0].totalPages - 1) :
              Cardinality(EntriesAt(zones'[0].quarantine, p)) <= 1]_vars



\* allocate(100) of a round takes place in a zone in which no block is live
IdleAllocateStep ==
    /\ last'.op = "allocate"
    /\ pc[1].op = "round" /\ pc[1].at = "allocate"
    /\ pc'[1].at = "deallocate"
    /\ fault = "none"
    /\ live = {}

\* C33 as stated: in every reachable state of a zone in which no block is
\* live, allocate of a one-page request succeeds, for every page count N and
\* quarantine capacity Q.
C33_NeverExhausted == [][IdleAllocateStep => last'.ret # NULL]_vars

\* C33, amended: in such a state allocate of a one-page request succeeds
\* exactly when the active quarantine entries cover fewer than N pages.
C33_ExhaustedWhenFull ==
    [][IdleAllocateStep =>
        (last'.ret # NULL <=>
            PagesOf(QuarantinedItems(0)) < zones[0].totalPages)]_vars

\* allocate has succeeded in a zone of 33 pages after the quarantine, 32
\* entries, evicted its first entry
C33_Witness ==
    /\ fault = "none"
    /\ zones[0].totalPages = DefaultCapacity + 1
    /\ pc[1] = Round(DefaultCapacity + 2, "deallocate")
    /\ last.op = "allocate"
    /\ last.ret # NULL
    /\ IsFull(zones[0].quarantine)



\* active entries of zone i whose page range holds page p
EntriesOver(i, p) ==
    {s \in ActiveSlots(zones[i].quarantine) :
        p \in PageRange(zones[i].quarantine.entries[s].startPage,
                        zones[i].quarantine.entries[s].pageCount)}

\* C34: after every public operation that returns, in every active zone the
\* pages with inUse = 1 and allocated = 0 are exactly the pages of the
\* active quarantine entries, and each of them lies in exactly one active
\* entry.
C34_QuarantinedPagesExact ==
    Running =>
    \A i \in ActiveZoneIds :
        /\ zones[i].bitmapInUse.bits \ zones[i].bitmapAllocated.bits
              = QuarantinedPages(i)
        /\ \A p \in QuarantinedPages(i) : Cardinality(EntriesOver(i, p)) = 1
        /\ \A p \in 0..(zones[i].totalPages - 1) :
              p \notin QuarantinedPages(i) => EntriesOver(i, p) = {}

\* evictions have taken place, a block of two pages and one of one page are
\* quarantined, a block is live and a page is free
C34_Witness ==
    /\ fault = "none"
    /\ zones[0].successfulFrees > ALLOC_QUARANTINE_CAPACITY
    /\ Cardinality(QuarantinedPages(0)) = 3
    /\ zones[0].bitmapAllocated.bits # {}
    /\ zones[0].freePagesCount >= 1


\* the bytes of the live block b lie inside no window the MPU holds
OutsideWindows(b) ==
    \A r \in MpuRegions :
        mpu[r] # NoWindow =>
            \/ PageAddress(zones[b.zone], b.startPage + b.pageCount) <= mpu[r].addr
            \/ PageAddress(zones[b.zone], b.startPage) >= mpu[r].addr + mpu[r].size

\* C35: with the MPU enabled and available, no page of a live block is ever
\* inside a window that is protected at that moment.
C35_LiveNotProtected == \A b \in live : OutsideWindows(b)

\* the active entries of zone i that record the region
EntriesOfRegion(i, region) ==
    {s \in ActiveSlots(zones[i].quarantine) :
        zones[i].quarantine.entries[s].mpuRegion = region}

\* C36: whenever protect returns a region during deallocate, some active
\* quarantine entry records that region when deallocate returns.
C36_RegionRecorded ==
    (last.op = "deallocate" /\ last.zone >= 0 /\ last.region >= 0)
        => EntriesOfRegion(last.zone, last.region) # {}

\* C37: every active quarantine entry that records a region r >= 0 has r held
\* by the MPU with a window that contains the entry's pages, and no call of
\* unprotect releases a region that is not held.
C37_RecordedRegionsHeld ==
    /\ \A i \in ZoneIds : \A s \in ActiveSlots(zones[i].quarantine) :
          zones[i].quarantine.entries[s].mpuRegion >= 0 =>
              /\ zones[i].quarantine.entries[s].mpuRegion \in MpuRegions
              /\ mpu[zones[i].quarantine.entries[s].mpuRegion] # NoWindow
              /\ EntryInside(zones[i], zones[i].quarantine.entries[s],
                             mpu[zones[i].quarantine.entries[s].mpuRegion])
    /\ last.op = "deallocate" => ~last.stray


\* C38: calloc(num, size) of the router, when num * size does not overflow,
\* returns non-NULL exactly when allocate(num * size) in the same state
\* would, and from the same zone.
C38_CallocRoutesAsAllocate ==
    [][(CallocStep /\ ~SzMulOverflows(last'.arg[1], last'.arg[2])) =>
        \E a \in {AllocateWithRoute(zones, heap, activeZones,
                                     ResolveRoute(currentZone),
                                     SzMul(last'.arg[1], last'.arg[2]))} :
            /\ (last'.ret # NULL) <=> (a.ret # NULL)
            /\ last'.zone = a.zone]_vars

====
